---- MODULE Spec2Model ----
(***************************************************************************)
(* Fleety backend: the FAQ chatbot's safety gate (ChatbotSafety), the RAG  *)
(* orchestrator (RAGService.search_and_generate) and the two routes that   *)
(* call them, as a state machine.                                          *)
(*                                                                         *)
(* Strings are TLA+ strings; substring tests, lower-casing and the regular *)
(* expressions of the source are computed character by character.          *)
(* Scores are integers in thousandths (1000 = 1.0).  Time is in seconds.   *)
(***************************************************************************)
EXTENDS Integers, Sequences, FiniteSets, TLC

(***************************************************************************)
(* Bounds of the model                                                     *)
(***************************************************************************)
MaxCalls == 4
MaxTicks == 2
TickSeconds == 150
PrefillLen == 49

(***************************************************************************)
(* String helpers: str.lower(), `x in s`, re.search for the source's       *)
(* patterns                                                                *)
(***************************************************************************)
UpperChars == <<"A", "B", "C", "D", "E", "F", "G", "H", "I", "J", "K", "L", "M",
                "N", "O", "P", "Q", "R", "S", "T", "U", "V", "W", "X", "Y", "Z">>
LowerChars == <<"a", "b", "c", "d", "e", "f", "g", "h", "i", "j", "k", "l", "m",
                "n", "o", "p", "q", "r", "s", "t", "u", "v", "w", "x", "y", "z">>

CharAt(s, i) == SubSeq(s, i, i)

LowerChar(c) ==
    IF \E k \in 1..26 : UpperChars[k] = c
    THEN LowerChars[CHOOSE k \in 1..26 : UpperChars[k] = c]
    ELSE c

\* s[i..j] in lower case
RECURSIVE LowerRange(_, _, _)
LowerRange(s, i, j) ==
    IF i > j THEN ""
    ELSE IF i = j THEN LowerChar(CharAt(s, i))
    ELSE LET m == (i + j) \div 2
         IN  LowerRange(s, i, m) \o LowerRange(s, m + 1, j)

\* str.lower()
Lower(s) == LowerRange(s, 1, Len(s))

\* s[i:].startswith(p), 1-based
StartsAt(s, p, i) ==
    /\ i >= 1
    /\ i + Len(p) - 1 <= Len(s)
    /\ SubSeq(s, i, i + Len(p) - 1) = p

\* p in s (str is s, evaluated once)
Contains(s, p) == \E str \in {s} : \E i \in 1..(Len(str) + 1) : StartsAt(str, p, i)

\* any(p in s for p in ps)
ContainsAny(s, ps) == \E str \in {s} : \E p \in ps : Contains(str, p)

\* \s of the re module, for the characters the queries can hold
IsSpace(c) == c \in {" ", "\t", "\n"}

\* re.search(a\s+b, s)
MatchSpaced(s, a, b) ==
    \E str \in {s} : \E i \in 1..(Len(str) + 1) :
        /\ StartsAt(str, a, i)
        /\ \E j \in (i + Len(a) + 1)..(Len(str) + 1) :
              /\ StartsAt(str, b, j)
              /\ \A k \in (i + Len(a))..(j - 1) : IsSpace(CharAt(str, k))

(***************************************************************************)
(* ChatbotSafety: pattern tables, messages                                 *)
(***************************************************************************)
abuse_patterns == {"damn", "hell", "bastard", "idiot", "stupid",
                   "kill", "die", "suck", "f*ck", "f##k", "ass"}

spam_keywords == {"viagra", "casino", "lottery", "free money", "click here"}

prompt_injection_keywords == {"ignore", "forget", "bypass", "override", "system prompt",
                              "you are", "pretend", "roleplay", "act as",
                              "forget instructions"}

\* literal patterns of malicious_patterns; drop\s+table and delete\s+from are
\* matched by MatchSpaced
malicious_literals == {"exec(", "eval(", "__import__", "subprocess", "os.system"}

\* timedelta(minutes=5), in seconds
SPAM_WINDOW == 300
REPEAT_LIMIT == 3
HISTORY_CAP == 50
WARNING_LIMIT == 3

\* the messages of the source (their leading emoji left out)
BLOCKED_MSG == "Your access has been temporarily restricted due to policy violations."
REPEAT_MSG == "Please avoid sending the same question repeatedly. Try rephrasing or ask something new."
SPAM_MSG == "This message contains spam. Please ask legitimate questions about Fleety."
ABUSE_MSG == "I'm here to help! Please keep our conversation respectful and family-friendly. Let me know how I can assist you with Fleety."
INJECTION_MSG == "I'm here to help with Fleety questions only. I can't modify my instructions or behavior beyond helping with Fleety support."
MALICIOUS_MSG == "I've detected a potentially harmful request. For security reasons, this conversation has been reset. Please ask legitimate questions about Fleety."

(***************************************************************************)
(* Inputs of the safety gate                                               *)
(***************************************************************************)
UserKeys == {"10.0.0.1", "10.0.0.2"}

\* two benign queries that differ in case only; spam + abuse; abuse + injection;
\* abuse + malicious; injection + malicious; malicious alone
SafetyQueries == {"fuel cost", "Fuel Cost",
                  "casino idiot", "idiot ignore", "idiot eval(",
                  "ignore drop  table", "eval("}

\* a query of each coarse domain the orchestrator routes on, and a blank one
PipelineQueries == {"how do i register", "Forgot my LOGIN", "add a car",
                    "oil change reminder", "fuel cost", "hi there", "   "}

Queries == SafetyQueries \cup PipelineQueries

(***************************************************************************)
(* State                                                                   *)
(***************************************************************************)
VARIABLES
    user_message_history,   \* ChatbotSafety.user_message_history: user -> Seq(<<msg, timestamp>>)
    user_warnings,          \* ChatbotSafety.user_warnings: user -> Nat
    blocked_users,          \* ChatbotSafety.blocked_users: set of users
    now,                    \* datetime.now(), seconds
    calls,                  \* number of validate_query calls made so far
    last,                   \* the last validate_query call: its inputs, its result, the caller's state before it
    rejected,               \* history: user -> calls rejected by spam/abuse/injection, ever
    rejectedSinceReset,     \* history: the same, since the user's last reset_user
    accepted,               \* history: user -> accepted queries since the user's last reset_user
    faq_collection,         \* what FAQ.find_all returns
    gemini,                 \* RAGService.api_key, RAGService.model, and what the model does when called
    request,                \* the last request handled: its inputs, its response, what it invoked
    memory_interactions,    \* number of memory_service.update_interaction calls
    analytics_interactions, \* number of Analytics.record_interaction calls
    contacts,               \* number of support tickets created
    support_emails,         \* number of support emails sent
    event_loop              \* the validate_query calls of the requests in flight, and the one running

safetyVars == <<user_message_history, user_warnings, blocked_users, now, calls, last,
                rejected, rejectedSinceReset, accepted>>

environmentVars == <<faq_collection, gemini, event_loop>>

storeVars == <<memory_interactions, analytics_interactions, contacts, support_emails>>

vars == <<safetyVars, environmentVars, request, storeVars>>

(***************************************************************************)
(* ChatbotSafety: the checks.  S is the safety state                       *)
(* [history, warnings, blocked]; t is datetime.now().                      *)
(***************************************************************************)
SafetyState == [history |-> user_message_history,
                warnings |-> user_warnings,
                blocked |-> blocked_users]

\* message.lower(), and the pattern tests of the four checks, for each query
LowerOf == [q \in Queries |-> Lower(q)]
HasSpamKeyword == [q \in Queries |-> ContainsAny(Lower(q), spam_keywords)]
HasAbusePattern == [q \in Queries |-> ContainsAny(Lower(q), abuse_patterns)]
HasInjectionKeyword ==
    [q \in Queries |-> ContainsAny(Lower(q), prompt_injection_keywords)]
HasMaliciousPattern ==
    [q \in Queries |->
        \/ MatchSpaced(Lower(q), "drop", "table")
        \/ MatchSpaced(Lower(q), "delete", "from")
        \/ ContainsAny(Lower(q), malicious_literals)]

\* check_spam counting the messages that are five minutes old too
check_spam_window_inclusive(S, user_id, message, t) ==
    LET recent_messages == SelectSeq(S.history[user_id],
                                     LAMBDA e : t - e[2] <= SPAM_WINDOW)
        identical_count == Len(SelectSeq(recent_messages,
                                         LAMBDA e : LowerOf[e[1]] = LowerOf[message]))
    IN  IF identical_count >= REPEAT_LIMIT
        THEN <<TRUE, REPEAT_MSG>>
        ELSE IF HasSpamKeyword[message]
             THEN <<TRUE, SPAM_MSG>>
             ELSE <<FALSE, "">>

\* check_spam: <<is_spam, message>>
check_spam(S, user_id, message, t) ==
    LET recent_messages == SelectSeq(S.history[user_id],
                                     LAMBDA e : t - e[2] < SPAM_WINDOW)
        identical_count == Len(SelectSeq(recent_messages,
                                         LAMBDA e : LowerOf[e[1]] = LowerOf[message]))
    IN  IF identical_count >= REPEAT_LIMIT
        THEN <<TRUE, REPEAT_MSG>>
        ELSE IF HasSpamKeyword[message]
             THEN <<TRUE, SPAM_MSG>>
             ELSE <<FALSE, "">>

\* check_abusive_language: <<is_abusive, message>>
check_abusive_language(message) ==
    IF HasAbusePattern[message] THEN <<TRUE, ABUSE_MSG>> ELSE <<FALSE, "">>

\* check_prompt_injection: <<is_injection, message>>
check_prompt_injection(message) ==
    IF HasInjectionKeyword[message] THEN <<TRUE, INJECTION_MSG>> ELSE <<FALSE, "">>

\* check_malicious_request: <<is_malicious, message>>
check_malicious_request(message) ==
    IF HasMaliciousPattern[message] THEN <<TRUE, MALICIOUS_MSG>> ELSE <<FALSE, "">>

\* list[-n:]
LastN(seq, n) ==
    IF Len(seq) > n THEN SubSeq(seq, Len(seq) - n + 1, Len(seq)) ELSE seq

\* record_message keeping the first HISTORY_CAP entries ([:50] for [-50:])
record_message_keep_oldest(S, user_id, message, t) ==
    LET appended == Append(S.history[user_id], <<message, t>>)
    IN  [S EXCEPT !.history[user_id] =
            IF Len(appended) > HISTORY_CAP THEN SubSeq(appended, 1, HISTORY_CAP)
            ELSE appended]

\* record_message: append, keep the last HISTORY_CAP
record_message(S, user_id, message, t) ==
    LET appended == Append(S.history[user_id], <<message, t>>)
    IN  [S EXCEPT !.history[user_id] =
            IF Len(appended) > HISTORY_CAP THEN LastN(appended, HISTORY_CAP)
            ELSE appended]

\* add_warning blocking one warning late (> for >=)
add_warning_late(S, user_id) ==
    LET warning_count == S.warnings[user_id] + 1
    IN  [S EXCEPT !.warnings[user_id] = warning_count,
                  !.blocked = IF warning_count > WARNING_LIMIT
                              THEN S.blocked \cup {user_id}
                              ELSE S.blocked]

\* add_warning blocking one warning early
add_warning_blocks_early(S, user_id) ==
    LET warning_count == S.warnings[user_id] + 1
    IN  [S EXCEPT !.warnings[user_id] = warning_count,
                  !.blocked = IF warning_count >= WARNING_LIMIT - 1
                              THEN S.blocked \cup {user_id}
                              ELSE S.blocked]

\* add_warning: count it, block at WARNING_LIMIT
add_warning(S, user_id) ==
    LET warning_count == S.warnings[user_id] + 1
    IN  [S EXCEPT !.warnings[user_id] = warning_count,
                  !.blocked = IF warning_count >= WARNING_LIMIT
                              THEN S.blocked \cup {user_id}
                              ELSE S.blocked]

\* is_user_blocked that finds nobody blocked
is_user_blocked_nobody(S, user_id) == FALSE

is_user_blocked(S, user_id) == user_id \in S.blocked

\* reset_user that leaves the warnings
reset_user_keep_warnings(S, user_id) ==
    [S EXCEPT !.blocked = S.blocked \ {user_id},
              !.history[user_id] = <<>>]

\* reset_user that resets every user key
reset_user_every_key(S, user_id) ==
    [S EXCEPT !.blocked = {},
              !.warnings = [u \in DOMAIN S.warnings |-> 0],
              !.history = [u \in DOMAIN S.history |-> <<>>]]

\* reset_user: unblock, clear warnings and history
reset_user(S, user_id) ==
    [S EXCEPT !.blocked = S.blocked \ {user_id},
              !.warnings[user_id] = 0,
              !.history[user_id] = <<>>]

\* no function raises during the call
NO_FAULT == "none"

\* the functions of the gate that an internal error can make raise, each at its
\* first statement
SafetyFaults == {"is_user_blocked", "check_spam", "check_abusive_language",
                 "check_prompt_injection", "check_malicious_request",
                 "add_warning", "record_message", "reset_user"}

\* fault: the function that raised during the call, NO_FAULT if none did
Verdict(S, allowed, message, check) ==
    [state |-> S, allowed |-> allowed, message |-> message, check |-> check,
     fault |-> NO_FAULT]

\* the outcome v of a call during which the function named fault raised
Raised(v, fault) == [v EXCEPT !.fault = fault]

\* validate_query's handler: "Allow message if validation fails"
FailOpen(S, fault) == Raised(Verdict(S, TRUE, "", "error"), fault)

\* a check triggered: add_warning has no handler of its own, so an error in it
\* reaches validate_query's handler
Warned(S, user_id, message, check, fault) ==
    IF fault = "add_warning" THEN FailOpen(S, fault)
    ELSE Verdict(add_warning(S, user_id), FALSE, message, check)

\* no check triggered: record_message logs its own errors and returns
RecordValid(S, user_id, query, t, fault) ==
    IF fault = "record_message" THEN Raised(Verdict(S, TRUE, "", "none"), fault)
    ELSE Verdict(record_message(S, user_id, query, t), TRUE, "", "none")

\* check_malicious_request and what follows it; a check that raises returns
\* (False, "") from its own handler, and reset_user logs its own errors
MaliciousChecked(S, user_id, query, t, fault) ==
    IF fault = "check_malicious_request"
    THEN Raised(RecordValid(S, user_id, query, t, fault), fault)
    ELSE LET malicious == check_malicious_request(query)
         IN  IF ~malicious[1] THEN RecordValid(S, user_id, query, t, fault)
             ELSE IF fault = "reset_user"
                  THEN Raised(Verdict(S, FALSE, malicious[2], "malicious"), fault)
             ELSE Verdict(reset_user(S, user_id), FALSE, malicious[2], "malicious")

\* check_prompt_injection and what follows it
InjectionChecked(S, user_id, query, t, fault) ==
    IF fault = "check_prompt_injection"
    THEN Raised(MaliciousChecked(S, user_id, query, t, fault), fault)
    ELSE LET injection == check_prompt_injection(query)
         IN  IF injection[1] THEN Warned(S, user_id, injection[2], "injection", fault)
             ELSE MaliciousChecked(S, user_id, query, t, fault)

\* check_abusive_language and what follows it
AbuseChecked(S, user_id, query, t, fault) ==
    IF fault = "check_abusive_language"
    THEN Raised(InjectionChecked(S, user_id, query, t, fault), fault)
    ELSE LET abuse == check_abusive_language(query)
         IN  IF abuse[1] THEN Warned(S, user_id, abuse[2], "abuse", fault)
             ELSE InjectionChecked(S, user_id, query, t, fault)

\* check_spam and what follows it
SpamChecked(S, user_id, query, t, fault) ==
    IF fault = "check_spam"
    THEN Raised(AbuseChecked(S, user_id, query, t, fault), fault)
    ELSE LET spam == check_spam(S, user_id, query, t)
         IN  IF spam[1] THEN Warned(S, user_id, spam[2], "spam", fault)
             ELSE AbuseChecked(S, user_id, query, t, fault)

\* validate_query when the function named fault raises: the state after the call,
\* (is_valid, response_message) and the check that returned
validate_query_on(S, user_id, query, t, fault) ==
    IF fault = "is_user_blocked" THEN FailOpen(S, fault)
    ELSE IF is_user_blocked(S, user_id) THEN Verdict(S, FALSE, BLOCKED_MSG, "blocked")
    ELSE SpamChecked(S, user_id, query, t, fault)

\* validate_query with the malicious-request check moved to the front
validate_query_malicious_first(S, user_id, query, t) ==
    LET spam == check_spam(S, user_id, query, t)
        abuse == check_abusive_language(query)
        injection == check_prompt_injection(query)
        malicious == check_malicious_request(query)
    IN  IF malicious[1]
        THEN Verdict(reset_user(S, user_id), FALSE, malicious[2], "malicious")
        ELSE IF is_user_blocked(S, user_id)
             THEN Verdict(S, FALSE, BLOCKED_MSG, "blocked")
        ELSE IF spam[1] THEN Verdict(add_warning(S, user_id), FALSE, spam[2], "spam")
        ELSE IF abuse[1] THEN Verdict(add_warning(S, user_id), FALSE, abuse[2], "abuse")
        ELSE IF injection[1]
             THEN Verdict(add_warning(S, user_id), FALSE, injection[2], "injection")
        ELSE Verdict(record_message(S, user_id, query, t), TRUE, "", "none")

\* validate_query with the malicious-request check before the abuse check
validate_query_malicious_before_abuse(S, user_id, query, t) ==
    IF is_user_blocked(S, user_id)
    THEN Verdict(S, FALSE, BLOCKED_MSG, "blocked")
    ELSE
    LET spam == check_spam(S, user_id, query, t)
        abuse == check_abusive_language(query)
        injection == check_prompt_injection(query)
        malicious == check_malicious_request(query)
    IN  IF spam[1] THEN Verdict(add_warning(S, user_id), FALSE, spam[2], "spam")
        ELSE IF malicious[1]
             THEN Verdict(reset_user(S, user_id), FALSE, malicious[2], "malicious")
        ELSE IF abuse[1] THEN Verdict(add_warning(S, user_id), FALSE, abuse[2], "abuse")
        ELSE IF injection[1]
             THEN Verdict(add_warning(S, user_id), FALSE, injection[2], "injection")
        ELSE Verdict(record_message(S, user_id, query, t), TRUE, "", "none")

\* validate_query when nothing raises
validate_query(S, user_id, query, t) ==
    validate_query_on(S, user_id, query, t, NO_FAULT)

(***************************************************************************)
(* More string helpers, for the orchestrator                               *)
(***************************************************************************)
\* s[i:], 1-based
Suffix(s, i) == IF i > Len(s) THEN "" ELSE SubSeq(s, i, Len(s))

\* s[:n]
Prefix(s, n) == IF n >= Len(s) THEN s ELSE SubSeq(s, 1, n)

\* not s.strip()
IsBlank(s) == \A i \in 1..Len(s) : IsSpace(CharAt(s, i))

\* s.strip()
Strip(s) ==
    IF IsBlank(s) THEN ""
    ELSE LET first == CHOOSE i \in 1..Len(s) :
                          ~IsSpace(CharAt(s, i)) /\ \A k \in 1..(i - 1) : IsSpace(CharAt(s, k))
             final == CHOOSE j \in 1..Len(s) :
                          ~IsSpace(CharAt(s, j)) /\ \A k \in (j + 1)..Len(s) : IsSpace(CharAt(s, k))
         IN  SubSeq(s, first, final)

\* s.count(p): occurrences of p in s that do not overlap, from the left
RECURSIVE CountFrom(_, _, _)
CountFrom(s, p, i) ==
    IF p = "" THEN Len(s) + 1
    ELSE IF i + Len(p) - 1 > Len(s) THEN 0
    ELSE IF StartsAt(s, p, i) THEN 1 + CountFrom(s, p, i + Len(p))
    ELSE CountFrom(s, p, i + 1)

Count(s, p) == CountFrom(s, p, 1)

\* re.search(a.*b, s): a, then anything but a newline, then b
MatchGap(s, a, b) ==
    \E str \in {s} : \E i \in 1..(Len(str) + 1) :
        /\ StartsAt(str, a, i)
        /\ \E j \in (i + Len(a))..(Len(str) + 1) :
              /\ StartsAt(str, b, j)
              /\ \A k \in (i + Len(a))..(j - 1) : CharAt(str, k) # "\n"

\* Python's None, where a string is expected
NONE == "<None>"

(***************************************************************************)
(* RAGService: coarse domain, canned answers                               *)
(***************************************************************************)
\* classify_query_intent
classify_query_intent(query) ==
    LET query_lower == Lower(query)
    IN  IF ContainsAny(query_lower, {"register", "sign up", "create account",
                                     "new account", "get started"})
        THEN "registration"
        ELSE IF ContainsAny(query_lower, {"password", "login", "forgot", "reset password",
                                          "locked out", "can't login"})
        THEN "password_help"
        ELSE IF ContainsAny(query_lower, {"vehicle", "add vehicle", "car", "truck", "fleet",
                                          "register vehicle"})
        THEN "vehicle_management"
        ELSE IF ContainsAny(query_lower, {"maintenance", "service", "repair", "oil change",
                                          "reminder"})
        THEN "maintenance"
        ELSE IF ContainsAny(query_lower, {"fuel", "efficiency", "cost", "consumption",
                                          "analytics"})
        THEN "fuel_tracking"
        ELSE "general"

\* the two canned answers
REGISTRATION_TEMPLATE ==
    "To register for Fleety Fleet Management:\n"
    \o "\n"
    \o "1. Visit our website and click 'Start Free Trial' or 'Sign Up'\n"
    \o "2. Enter your company information (company name, email)\n"
    \o "3. Create a secure password\n"
    \o "4. Verify your email address by clicking the link sent to your inbox\n"
    \o "5. Set up your fleet profile and add your first vehicle\n"
    \o "\n"
    \o "Once registered, you can immediately start:\n"
    \o "- Adding and managing vehicles\n"
    \o "- Setting up maintenance schedules\n"
    \o "- Tracking fuel efficiency\n"
    \o "- Generating fleet reports\n"
    \o "\n"
    \o "For login issues, use the 'Forgot Password' option on the login page."

PASSWORD_TEMPLATE ==
    "To reset your password:\n"
    \o "\n"
    \o "1. Go to the Fleety login page\n"
    \o "2. Click 'Forgot Password'\n"
    \o "3. Enter the email associated with your account\n"
    \o "4. Check your email for a reset link (check spam folder if needed)\n"
    \o "5. Click the link and follow the instructions to create a new password\n"
    \o "6. Use your new password to log in\n"
    \o "\n"
    \o "If you don't receive the email within 5 minutes, please contact support@fleety.com"

\* get_direct_answer_template that has lost its password branch
get_direct_answer_template_registration_only(query_intent, query) ==
    IF query_intent = "registration" THEN REGISTRATION_TEMPLATE ELSE NONE

\* get_direct_answer_template
get_direct_answer_template(query_intent, query) ==
    IF query_intent = "registration" THEN REGISTRATION_TEMPLATE
    ELSE IF query_intent = "password_help" THEN PASSWORD_TEMPLATE
    ELSE NONE

(***************************************************************************)
(* SemanticSearch: fine intent                                             *)
(***************************************************************************)
\* a pattern is <<a, b>>: the literal a when b = "", else a.*b
Lit(a) == <<a, "">>
Gap(a, b) == <<a, b>>

\* intent_patterns, in dictionary order
intent_patterns ==
    << <<"add_vehicle", <<Gap("add", "vehicle"), Gap("new", "vehicle"),
                          Gap("register", "vehicle"), Gap("create", "car")>> >>,
       <<"maintenance", <<Lit("maintenance"), Lit("service"), Lit("repair"), Lit("upkeep")>> >>,
       <<"reminder", <<Lit("reminder"), Lit("alert"), Lit("notification"),
                       Gap("due", "date")>> >>,
       <<"track_cost", <<Gap("track", "cost"), Gap("maintenance", "cost"),
                         Lit("spending"), Lit("expense")>> >>,
       <<"account_setup", <<Gap("create", "account"), Gap("sign", "up"),
                            Lit("register"), Lit("account")>> >>,
       <<"login", <<Lit("login"), Gap("sign", "in"), Lit("access"), Lit("password")>> >>,
       <<"export", <<Lit("export"), Lit("download"), Lit("report"), Lit("generate")>> >>,
       <<"gps", <<Lit("gps"), Lit("location"), Gap("track", "vehicle"), Gap("real", "time")>> >>,
       <<"team", <<Lit("team"), Lit("invite"), Lit("member"), Lit("role"),
                   Lit("permission")>> >>,
       <<"compliance", <<Lit("compliance"), Lit("license"), Lit("driver")>> >> >>

\* the text of a pattern
PatternText(pat) == IF pat[2] = "" THEN pat[1] ELSE pat[1] \o ".*" \o pat[2]

\* re.search(pattern, s)
PatternMatches(pat, s) ==
    IF pat[2] = "" THEN Contains(s, pat[1]) ELSE MatchGap(s, pat[1], pat[2])

\* the score of one matching pattern: 1.0 when the pattern's first five characters
\* occur more than once in the query, else 0.9
PatternScore(pat, query_lower) ==
    IF Count(query_lower, Prefix(PatternText(pat), 5)) > 1 THEN 1000 ELSE 900

\* the best score among the patterns of intent number k, 0 when none matches
IntentScore(k, query_lower) ==
    LET pats == intent_patterns[k][2]
        hits == {n \in 1..Len(pats) : PatternMatches(pats[n], query_lower)}
    IN  IF hits = {} THEN 0
        ELSE IF \E n \in hits : PatternScore(pats[n], query_lower) = 1000 THEN 1000
        ELSE 900

\* the score of every intent, in dictionary order
IntentScores(query_lower) ==
    [k \in 1..Len(intent_patterns) |-> IntentScore(k, query_lower)]

\* the first intent with the best score, "general" when no pattern matches
BestIntent(scores) ==
    LET K == DOMAIN scores
        best == IF \E k \in K : scores[k] = 1000 THEN 1000
                ELSE IF \E k \in K : scores[k] = 900 THEN 900
                ELSE 0
    IN  IF best = 0 THEN <<"general", 0>>
        ELSE LET k == CHOOSE k \in K :
                          /\ scores[k] = best
                          /\ \A j \in 1..(k - 1) : scores[j] # best
             IN  <<intent_patterns[k][1], best>>

\* detect_intent: <<intent, confidence>>
detect_intent(query) == BestIntent(IntentScores(Lower(query)))

(***************************************************************************)
(* SemanticSearch: lexical search, freshness, grounding                    *)
(*                                                                         *)
(* A FAQ is [id, question, answer, has_category, category].  The two       *)
(* results of calculate_similarity for a FAQ, against its question and     *)
(* against its answer, are inputs of a call: sim[i] = [question, answer]   *)
(* for the i-th FAQ of the collection.                                     *)
(***************************************************************************)
SEARCH_THRESHOLD == 300
TOP_K == 5
NOTE_BELOW == 600
CLARIFICATION_CONFIDENCE == 300

Max(a, b) == IF a >= b THEN a ELSE b
Min(a, b) == IF a <= b THEN a ELSE b

\* the score of the i-th FAQ in search_faqs
FaqScore(faqs, sim, i, intent) ==
    LET faq == faqs[i]
        q_similarity == sim[i].question
        a_similarity == (sim[i].answer * 5) \div 10
        similarity == Max(q_similarity, a_similarity)
    IN  IF /\ faq.has_category
           /\ \/ Contains(Lower(intent), Lower(faq.category))
              \/ Contains(Lower(faq.category), intent)
        THEN Min((similarity * 12) \div 10, 1000)
        ELSE similarity

\* list.sort(key=score, reverse=True): descending, equal scores in their first order
RECURSIVE SortByScore(_)
SortByScore(results) ==
    IF results = <<>> THEN <<>>
    ELSE LET head == results[1]
             rest == SortByScore(Tail(results))
             before == SelectSeq(rest, LAMBDA r : r[2] > head[2])
             after == SelectSeq(rest, LAMBDA r : r[2] <= head[2])
         IN  before \o <<head>> \o after

\* Ranked cutting the list to top_k before it is sorted
Ranked_truncates_unsorted(faqs, sim, intent, top_k, threshold) ==
    SortByScore(Prefix(SelectSeq([i \in 1..Len(faqs) |->
                                     <<faqs[i], FaqScore(faqs, sim, i, intent)>>],
                                 LAMBDA r : r[2] >= threshold),
                       top_k))

\* the <<faq, similarity>> pairs at or over the threshold, best first, top_k at most
Ranked(faqs, sim, intent, top_k, threshold) ==
    Prefix(SortByScore(SelectSeq([i \in 1..Len(faqs) |->
                                     <<faqs[i], FaqScore(faqs, sim, i, intent)>>],
                                 LAMBDA r : r[2] >= threshold)),
           top_k)

\* SemanticSearch.search_faqs: <<faq, similarity>> pairs
search_faqs(query, faqs, sim, top_k, threshold) ==
    IF IsBlank(query) THEN <<>>
    ELSE Ranked(faqs, sim, detect_intent(query)[1], top_k, threshold)

outdated_markers == {"coming soon", "will be available", "future release", "planned for",
                     "deprecated", "no longer", "obsolete"}

\* SemanticSearch.validate_answer_freshness
validate_answer_freshness(faq) == ~ContainsAny(Lower(faq.answer), outdated_markers)

GROUNDING_NOTE == "\n\n*Note: This answer is based on available documentation. For specific details, please contact our support team.*"

RECURSIVE MaxScore(_)
MaxScore(faq_results) ==
    IF Len(faq_results) = 1 THEN faq_results[1].similarity_score
    ELSE Max(faq_results[1].similarity_score, MaxScore(Tail(faq_results)))

\* ground_answer taking the first match's score for the best one
ground_answer_first_score(query, faq_results, answer) ==
    IF Len(faq_results) > 0
    THEN LET confidence == faq_results[1].similarity_score
         IN  [grounded_answer |-> IF confidence < NOTE_BELOW THEN answer \o GROUNDING_NOTE
                                  ELSE answer,
              is_grounded |-> TRUE,
              confidence |-> confidence]
    ELSE [grounded_answer |-> "I couldn't find specific information about '" \o query
                                 \o "' in our FAQ database. \n\nPlease contact our support team at support@fleety.com for detailed assistance. We're here to help!",
          is_grounded |-> FALSE,
          confidence |-> 0]

\* SemanticSearch.ground_answer
ground_answer(query, faq_results, answer) ==
    IF Len(faq_results) > 0
    THEN LET confidence == MaxScore(faq_results)
         IN  [grounded_answer |-> IF confidence < NOTE_BELOW THEN answer \o GROUNDING_NOTE
                                  ELSE answer,
              is_grounded |-> TRUE,
              confidence |-> confidence]
    ELSE [grounded_answer |-> "I couldn't find specific information about '" \o query
                                 \o "' in our FAQ database. \n\nPlease contact our support team at support@fleety.com for detailed assistance. We're here to help!",
          is_grounded |-> FALSE,
          confidence |-> 0]

(***************************************************************************)
(* ChatbotAnalytics.build_metadata: the fields the orchestrator decides.    *)
(* matched_faq is <<>> for None and <<faq>> for a FAQ.                     *)
(***************************************************************************)
\* round(x, 2) of a score in thousandths, halves to the even hundredth
Round2(x) ==
    LET r == x % 10
        low == x - r
    IN  IF r < 5 THEN low
        ELSE IF r > 5 THEN low + 10
        ELSE IF (low \div 10) % 2 = 0 THEN low ELSE low + 10

build_metadata(query, answer, faq_matched, similarity_score, used_gemini, matched_faq) ==
    [faq_matched |-> faq_matched,
     similarity_score |-> Round2(similarity_score),
     fallback_ai_used |-> used_gemini,
     faq_source |-> IF matched_faq = <<>> THEN NONE ELSE matched_faq[1].question]

(***************************************************************************)
(* RAGService: retrieval, override, context check, generation              *)
(***************************************************************************)
\* faq['similarity_score'] = similarity_score, for a (faq, similarity_score) pair
WithScore(r) ==
    [id |-> r[1].id, question |-> r[1].question, answer |-> r[1].answer,
     has_category |-> r[1].has_category, category |-> r[1].category,
     similarity_score |-> r[2]]

Scored(fresh) == [n \in 1..Len(fresh) |-> WithScore(fresh[n])]

\* validated_results without the freshness check
ValidatedResults_keeps_stale(semantic_results) == Scored(semantic_results)

\* the validated_results of the search results
ValidatedResults(semantic_results) ==
    Scored(SelectSeq(semantic_results, LAMBDA r : validate_answer_freshness(r[1])))

\* _keyword_search_faqs: the fresh ones of the top_k results, each with its score
keyword_search_faqs(query, all_faqs, sim, top_k) ==
    IF all_faqs = <<>> THEN <<>>
    ELSE ValidatedResults(search_faqs(query, all_faqs, sim, top_k, SEARCH_THRESHOLD))

\* should_override_similar_matches
should_override_similar_matches(query, matches, query_intent) ==
    IF Len(matches) < 2 THEN FALSE
    ELSE LET top_match == Lower(matches[1].question)
         IN  \/ /\ query_intent = "registration"
                /\ ContainsAny(top_match, {"password", "forgot", "reset"})
             \/ /\ query_intent = "password_help"
                /\ ContainsAny(top_match, {"register", "sign up", "create account"})
             \/ /\ query_intent = "vehicle_management"
                /\ ContainsAny(top_match, {"maintenance", "service", "repair"})

registration_keywords == {"register", "sign up", "create account", "account creation"}
password_keywords == {"password", "forgot", "reset", "forgot password"}
vehicle_keywords == {"vehicle", "add vehicle", "car", "truck", "fleet"}
CONTEXT_MIN_SCORE == 500

\* _validate_context_appropriateness rejecting a vehicle query's other-domain
\* match at 0.5 too
validate_context_appropriateness_at_limit(query, relevant_faqs, similarity_score) ==
    IF relevant_faqs = <<>> THEN FALSE
    ELSE LET query_lower == Lower(query)
             faq_question == Lower(relevant_faqs[1].question)
         IN  IF ContainsAny(query_lower, registration_keywords)
                   /\ ContainsAny(faq_question, password_keywords) THEN FALSE
             ELSE IF ContainsAny(query_lower, password_keywords)
                        /\ ContainsAny(faq_question, registration_keywords) THEN FALSE
             ELSE IF ContainsAny(query_lower, vehicle_keywords)
                        /\ ~ContainsAny(faq_question, vehicle_keywords)
                        /\ similarity_score <= CONTEXT_MIN_SCORE THEN FALSE
             ELSE TRUE

\* _validate_context_appropriateness
validate_context_appropriateness(query, relevant_faqs, similarity_score) ==
    IF relevant_faqs = <<>> THEN FALSE
    ELSE LET query_lower == Lower(query)
             faq_question == Lower(relevant_faqs[1].question)
             is_registration_query == ContainsAny(query_lower, registration_keywords)
             is_password_query == ContainsAny(query_lower, password_keywords)
             is_vehicle_query == ContainsAny(query_lower, vehicle_keywords)
             is_password_answer == ContainsAny(faq_question, password_keywords)
             is_registration_answer == ContainsAny(faq_question, registration_keywords)
             is_vehicle_answer == ContainsAny(faq_question, vehicle_keywords)
         IN  IF is_registration_query /\ is_password_answer THEN FALSE
             ELSE IF is_password_query /\ is_registration_answer THEN FALSE
             ELSE IF is_vehicle_query /\ ~is_vehicle_answer
                        /\ similarity_score < CONTEXT_MIN_SCORE THEN FALSE
             ELSE TRUE

\* what model.generate_content does: raise, or return a response whose text is
\* None or a string
RAISES == "<raises>"

\* _is_gemini_available
is_gemini_available(gem) == gem.api_key # NONE

\* generate_llm_answer is given the generator when the key and the model are there
GeneratorCalled(gem) == is_gemini_available(gem) /\ gem.model

\* generate_llm_answer whose fallback after a failed call is the fixed message
generate_llm_answer_fixed_fallback(query, relevant_faqs, gem) ==
    IF ~GeneratorCalled(gem)
    THEN IF Len(relevant_faqs) > 0 THEN relevant_faqs[1].answer
         ELSE "I couldn't find relevant FAQs. Please contact support."
    ELSE IF gem.reply \in {RAISES, NONE}
    THEN "I couldn't generate an answer. Please contact support."
    ELSE Strip(gem.reply)

\* generate_llm_answer
generate_llm_answer(query, relevant_faqs, gem) ==
    IF ~GeneratorCalled(gem)
    THEN IF Len(relevant_faqs) > 0 THEN relevant_faqs[1].answer
         ELSE "I couldn't find relevant FAQs. Please contact support."
    ELSE IF gem.reply \in {RAISES, NONE}
    THEN IF Len(relevant_faqs) > 0 THEN relevant_faqs[1].answer
         ELSE "I couldn't generate an answer. Please contact support."
    ELSE Strip(gem.reply)

\* the FAQ as the response carries it
CleanFaq(faq) ==
    [question |-> faq.question,
     answer |-> faq.answer,
     category |-> IF faq.has_category THEN faq.category ELSE "General",
     id |-> faq.id]

\* what search_and_generate returns, with what the call went through: the scored
\* matches it kept, the collaborators it invoked, the matches _keyword_search_faqs
\* returned (none before Step 1) and the answer generate_llm_answer returned
\* (NONE before Step 2), the number of calls of model.generate_content, the stage
\* that raised an exception (NONE when none did), and whether the call raised
Response(answer, matches, confidence, is_grounded, analytics, invoked) ==
    [answer |-> answer,
     relevant_faqs |-> [n \in 1..Len(matches) |-> CleanFaq(matches[n])],
     grounding_confidence |-> confidence,
     is_grounded |-> is_grounded,
     analytics |-> analytics,
     matches |-> matches,
     invoked |-> invoked,
     retrieved |-> <<>>,
     generated_answer |-> NONE,
     generator_calls |-> 0,
     error |-> NONE,
     raised |-> FALSE]

\* A stage of search_and_generate may raise an exception: fault names the stage
\* that does, NO_FAULT when none does.  The generator's exception is gem.reply.
\* build_metadata is called again by the handler of the exception: it raises on
\* its first call of the query only, or on every call.
Faults == {NO_FAULT, "classification", "retrieval", "override", "context", "grounding",
           "analytics", "analytics_always"}
AnalyticsFaults == {"analytics", "analytics_always"}

\* no analytics record
NoAnalytics == [faq_matched |-> FALSE, similarity_score |-> 0,
                fallback_ai_used |-> FALSE, faq_source |-> NONE]

\* search_and_generate, read from its last step to its first: each step is given
\* what the steps before it computed, and the collaborators invoked so far

\* the exception handler's own call of build_metadata raised: the exception
\* leaves search_and_generate
Escaped(stage, invoked) ==
    [Response(RAISES, <<>>, 0, FALSE, NoAnalytics, invoked)
     EXCEPT !.error = stage, !.raised = TRUE]

\* except Exception of search_and_generate, for an exception of a stage
Caught(query, error_answer, stage, invoked, fault) ==
    IF fault = "analytics_always" THEN Escaped(stage, invoked)
    ELSE [Response(error_answer, <<>>, 0, FALSE,
                   build_metadata(query, error_answer, FALSE, 0, FALSE, <<>>),
                   invoked)
          EXCEPT !.error = stage]

\* str(e) of the exception of a stage
ErrorAnswer(stage) == "An error occurred while searching FAQs: " \o stage \o " failed"

\* a return of search_and_generate: build_metadata, then the response
Tagged(query, answer, matches, confidence, is_grounded, faq_matched, similarity_score, used_gemini, matched_faq, invoked, fault) ==
    IF fault \in AnalyticsFaults
    THEN Caught(query, ErrorAnswer("analytics"), "analytics", invoked, fault)
    ELSE Response(answer, matches, confidence, is_grounded,
                  build_metadata(query, answer, faq_matched, similarity_score,
                                 used_gemini, matched_faq),
                  invoked)

\* the return of the full path, after Step 4 (build analytics)
Grounded(query, relevant_faqs, similarity_score, used_gemini, grounding_result, invoked, fault) ==
    Tagged(query, grounding_result.grounded_answer, relevant_faqs,
           grounding_result.confidence, grounding_result.is_grounded,
           TRUE, similarity_score, used_gemini, <<relevant_faqs[1]>>, invoked, fault)

\* ground_answer, whose own handler answers for an exception in it
ground_answer_or_fault(query, faq_results, answer, fault) ==
    IF fault = "grounding"
    THEN [grounded_answer |-> answer, is_grounded |-> FALSE, confidence |-> 0]
    ELSE ground_answer(query, faq_results, answer)

\* Step 3: ground the generated answer
Generated(query, relevant_faqs, similarity_score, used_gemini, generated_answer, invoked, fault) ==
    [Grounded(query, relevant_faqs, similarity_score, used_gemini,
              ground_answer_or_fault(query, relevant_faqs, generated_answer, fault),
              invoked \cup {"grounder"}, fault)
     EXCEPT !.generated_answer = generated_answer,
            !.error = IF fault = "grounding" THEN "grounding" ELSE @]

\* the clarification response of a context mismatch
Clarification(query, clarification_answer, similarity_score, invoked, fault) ==
    Tagged(query, clarification_answer, <<>>, CLARIFICATION_CONFIDENCE, FALSE,
           FALSE, similarity_score, FALSE, <<>>, invoked, fault)

\* the response when there is nothing to answer from
NoMatch(query, no_match_answer, invoked, fault) ==
    Tagged(query, no_match_answer, <<>>, 0, FALSE, FALSE, 0, FALSE, <<>>, invoked, fault)

\* Step 2 whatever the context check said
Checked_ignores_context(query, relevant_faqs, similarity_score, is_contextually_appropriate, invoked, gem, fault) ==
    Generated(query, relevant_faqs, similarity_score, is_gemini_available(gem),
              generate_llm_answer(query, relevant_faqs, gem),
              invoked \cup (IF GeneratorCalled(gem) THEN {"generator"} ELSE {}), fault)

\* after the context check: clarify, or Step 2, generate
Checked(query, relevant_faqs, similarity_score, is_contextually_appropriate, invoked, gem, fault) ==
    IF ~is_contextually_appropriate
    THEN Clarification(query,
            "I want to make sure I understand your question correctly. You asked about '"
            \o query \o "'. Could you provide more details so I can give you accurate information? For example, are you trying to [register/add a vehicle/track maintenance/etc.]?",
            similarity_score, invoked, fault)
    ELSE [Generated(query, relevant_faqs, similarity_score, is_gemini_available(gem),
                    generate_llm_answer(query, relevant_faqs, gem),
                    invoked \cup (IF GeneratorCalled(gem) THEN {"generator"} ELSE {}),
                    fault)
          EXCEPT !.generator_calls = IF GeneratorCalled(gem) THEN 1 ELSE 0,
                 !.error = IF GeneratorCalled(gem) /\ gem.reply \in {RAISES, NONE}
                                /\ @ = NONE
                           THEN "generation" ELSE @]

\* after Step 1.5: an overridden or empty match list is a no-match, else the
\* context check
Matched(query, relevant_faqs, faq_matched, similarity_score, invoked, gem, fault) ==
    IF faq_matched
    THEN IF fault = "context"
         THEN Caught(query, ErrorAnswer("context"), "context", invoked \cup {"context"},
                     fault)
         ELSE Checked(query, relevant_faqs, similarity_score,
                      validate_context_appropriateness(query, relevant_faqs,
                                                       similarity_score),
                      invoked \cup {"context"}, gem, fault)
    ELSE NoMatch(query,
            "I couldn't find information about '" \o query
            \o "' in our FAQ database. Please contact our support team at support@fleety.com for assistance.",
            invoked, fault)

\* Step 1.5: the override check, made when there is a match
Searched(query, query_intent, relevant_faqs, invoked, gem, fault) ==
    IF Len(relevant_faqs) > 0
    THEN IF fault = "override"
         THEN Caught(query, ErrorAnswer("override"), "override",
                     invoked \cup {"override"}, fault)
         ELSE IF should_override_similar_matches(query, relevant_faqs, query_intent)
         THEN Matched(query, <<>>, FALSE, 0, invoked \cup {"override"}, gem, fault)
         ELSE Matched(query, relevant_faqs, TRUE, relevant_faqs[1].similarity_score,
                      invoked \cup {"override"}, gem, fault)
    ELSE Matched(query, relevant_faqs, FALSE, 0, invoked, gem, fault)

\* Step 1 returned relevant_faqs
Retrieved(query, query_intent, relevant_faqs, invoked, gem, fault) ==
    [Searched(query, query_intent, relevant_faqs, invoked, gem, fault)
     EXCEPT !.retrieved = relevant_faqs,
            !.error = IF fault = "retrieval" THEN "retrieval" ELSE @]

\* _keyword_search_faqs, whose own handler returns [] for an exception in it
keyword_search_faqs_or_fault(query, all_faqs, sim, top_k, fault) ==
    IF fault = "retrieval" THEN <<>>
    ELSE keyword_search_faqs(query, all_faqs, sim, top_k)

\* Step 0.5: the direct answer template, or Step 1, the search
Classified(query, query_intent, direct_answer, all_faqs, sim, gem, fault) ==
    IF direct_answer # NONE /\ direct_answer # ""
    THEN Tagged(query, direct_answer, <<>>, 1000, TRUE, FALSE, 1000, FALSE, <<>>, {},
                fault)
    ELSE Retrieved(query, query_intent,
                   keyword_search_faqs_or_fault(query, all_faqs, sim, TOP_K, fault),
                   {"corpus"} \cup (IF all_faqs # <<>> /\ fault # "retrieval"
                                    THEN {"lexical"} ELSE {}),
                   gem, fault)

\* Step 0: classify the query
Routed(query, query_intent, all_faqs, sim, gem, fault) ==
    Classified(query, query_intent, get_direct_answer_template(query_intent, query),
               all_faqs, sim, gem, fault)

\* search_and_generate
search_and_generate(query, all_faqs, sim, gem, fault) ==
    IF fault = "classification"
    THEN Caught(query, ErrorAnswer("classification"), "classification", {}, fault)
    ELSE Routed(query, classify_query_intent(query), all_faqs, sim, gem, fault)

(***************************************************************************)
(* Routes: POST /api/faq/search and POST /api/support/inquire              *)
(***************************************************************************)
\* no pipeline response: the request ended before search_and_generate
NoResponse == Response("", <<>>, 0, FALSE, NoAnalytics, {})

\* no validate_query call: the request ended before it, or never makes one
NoVerdict(S) == Verdict(S, TRUE, "", "init")

\* semantic_search.detect_intent(query)[0], for each query
IntentOf == [q \in Queries |-> detect_intent(q)[1]]

\* what a call of search_and_generate does besides answering: the collaborators
\* it invoked, and build_metadata, which every return of it calls
PipelineEffects(result) ==
    result.invoked \cup (IF result.raised THEN {} ELSE {"analytics_built"})

\* what a handler did: the safety verdict (gate says whether validate_query was
\* called and what it said), the HTTP status and detail, the pipeline's response,
\* the effects, and the number of writes to each store
Handled(entry, user_id, query, gate, verdict, code, detail, result, effects, tickets, emails) ==
    [entry |-> entry, user |-> user_id, query |-> query, gate |-> gate,
     verdict |-> verdict, status |-> code, detail |-> detail,
     result |-> result, effects |-> effects,
     memory_writes |-> IF "memory" \in effects THEN 1 ELSE 0,
     analytics_writes |-> IF "analytics_persisted" \in effects THEN 1 ELSE 0,
     tickets |-> tickets, emails |-> emails]

(***************************************************************************)
(* Inputs of the orchestrator and of the routes                            *)
(***************************************************************************)
VehicleFaq == [id |-> "f1", question |-> "How do I add a vehicle?",
               answer |-> "Open Vehicles and choose Add Vehicle.",
               has_category |-> TRUE, category |-> "Vehicles"]
MaintenanceFaq == [id |-> "f2", question |-> "How do I schedule maintenance?",
                   answer |-> "Use the Maintenance tab to set a service reminder.",
                   has_category |-> TRUE, category |-> "Maintenance"]
StaleFaq == [id |-> "f3", question |-> "Can I export fuel reports?",
             answer |-> "Fuel report export is Coming Soon.",
             has_category |-> FALSE, category |-> ""]
FuelFaq == [id |-> "f4", question |-> "How is fuel cost calculated?",
            answer |-> "Litres filled times the price per litre.",
            has_category |-> TRUE, category |-> "General"]

Corpora == {<<>>, <<VehicleFaq>>, <<MaintenanceFaq, VehicleFaq>>,
            <<StaleFaq, FuelFaq, MaintenanceFaq>>}

\* what calculate_similarity gives for a FAQ's question and answer: nothing alike;
\* under the threshold unless boosted; the halved answer score exactly at the
\* threshold; between the threshold and the note limit; an exact match
SimPairs == {[question |-> 0, answer |-> 0],
             [question |-> 250, answer |-> 0],
             [question |-> 290, answer |-> 600],
             [question |-> 450, answer |-> 0],
             [question |-> 1000, answer |-> 1000]}

SimRows(n) == [1..n -> SimPairs]

GeneratorReplies == {RAISES, NONE, "   ",
                     "  Open the Vehicles page and press Add Vehicle. \n"}

\* GEMINI_API_KEY unset, empty, or set; with a key the model is built or not
GeminiStates ==
    {[api_key |-> k, model |-> FALSE, reply |-> NONE] : k \in {NONE, "", "key"}}
    \cup {[api_key |-> "key", model |-> TRUE, reply |-> r] : r \in GeneratorReplies}

NoGemini == [api_key |-> NONE, model |-> FALSE, reply |-> NONE]

(***************************************************************************)
(* Inputs of the routes.  search_and_generate depends on the query, the    *)
(* FAQ collection, the similarities and the generator only, so its results *)
(* for the routes' inputs are computed once.                               *)
(***************************************************************************)
\* request.client.host, or no client
Clients == {"10.0.0.1", NONE}
RouteUsers == {"10.0.0.1", "anonymous"}

\* rejected with a warning, rejected with a reset, template, retrieval, blank
RouteQueries == {"idiot ignore", "eval(", "how do i register", "add a car", "   "}

RouteCorpora == {<<>>, <<MaintenanceFaq, VehicleFaq>>}
RouteGeminiStates == {NoGemini,
                      [api_key |-> "key", model |-> TRUE,
                       reply |-> "  Open the Vehicles page and press Add Vehicle. \n"]}
RouteSimPairs == {[question |-> 0, answer |-> 0], [question |-> 450, answer |-> 0]}
RouteSimRows(n) == [1..n -> RouteSimPairs]

RouteInputs ==
    UNION {{<<q, f, sim, g>> : q \in RouteQueries, sim \in RouteSimRows(Len(f)),
                               g \in RouteGeminiStates} : f \in RouteCorpora}

\* rag_service.search_and_generate(query)
PipelineResults ==
    [i \in RouteInputs |-> search_and_generate(i[1], i[2], i[3], i[4], NO_FAULT)]

\* is_ai_answer of submit_support_inquiry
is_ai_answer(ai_response) ==
    LET answer_lower == Lower(ai_response.answer)
    IN  /\ ai_response.answer # ""
        /\ Len(ai_response.answer) > 20
        /\ ~Contains(answer_lower, "don't have")
        /\ ~Contains(answer_lower, "not found")

MeaningfulAnswer == [i \in RouteInputs |-> is_ai_answer(PipelineResults[i])]

\* request.client.host if request.client else "anonymous"
UserOf(client) == IF client # NONE THEN client ELSE "anonymous"

\* the stores search_faqs writes to after the pipeline: none for "anonymous"
Recording(user_id) ==
    IF user_id # "anonymous" THEN {"memory", "analytics_persisted"} ELSE {}

\* search_faqs after the pipeline returned result
Answered(user_id, query, verdict, result) ==
    Handled("faq_search", user_id, query, "accepted", verdict, 200, "", result,
            PipelineEffects(result) \cup Recording(user_id), 0, 0)

\* search_faqs after validate_query returned verdict
Gated(user_id, query, verdict, sim, faqs, gem) ==
    IF ~verdict.allowed
    THEN Handled("faq_search", user_id, query, "rejected", verdict, 400,
                 verdict.message, NoResponse, {}, 0, 0)
    ELSE Answered(user_id, query, verdict, PipelineResults[<<query, faqs, sim, gem>>])

\* search_faqs for a query that is not blank
Identified(S, user_id, query, sim, faqs, gem, t) ==
    Gated(user_id, query, validate_query(S, user_id, query, t), sim, faqs, gem)

\* routes/faq.py search_faqs that goes on to the pipeline whatever the verdict
search_faqs_route_ignores_verdict(S, client, query, sim, faqs, gem, t) ==
    IF IsBlank(query)
    THEN Handled("faq_search", NONE, query, "skipped", NoVerdict(S), 400,
                 "Query cannot be empty", NoResponse, {}, 0, 0)
    ELSE
    LET user_id == IF client # NONE THEN client ELSE "anonymous"
        verdict == validate_query(S, user_id, query, t)
        result == PipelineResults[<<query, faqs, sim, gem>>]
        recording == IF user_id # "anonymous" THEN {"memory", "analytics_persisted"}
                     ELSE {}
    IN  Handled("faq_search", user_id, query,
                IF verdict.allowed THEN "accepted" ELSE "rejected", verdict,
                IF verdict.allowed THEN 200 ELSE 400, verdict.message, result,
                PipelineEffects(result) \cup recording, 0, 0)

\* routes/faq.py search_faqs
search_faqs_route(S, client, query, sim, faqs, gem, t) ==
    IF IsBlank(query)
    THEN Handled("faq_search", NONE, query, "skipped", NoVerdict(S), 400,
                 "Query cannot be empty", NoResponse, {}, 0, 0)
    ELSE Identified(S, UserOf(client), query, sim, faqs, gem, t)

\* submit_support_inquiry after the pipeline returned ai_response; answered is
\* is_ai_answer, db_ok: Contact.create succeeds, email_ok: send_support_email
\* succeeds
Inquired(S, inquiry, ai_response, answered, db_ok, email_ok) ==
    IF answered
    THEN Handled("support", NONE, inquiry, "none", NoVerdict(S), 200,
                 "Your inquiry has been answered", ai_response,
                 PipelineEffects(ai_response), 0, 0)
    ELSE IF ~db_ok
    THEN Handled("support", NONE, inquiry, "none", NoVerdict(S), 500,
                 "Failed to process inquiry", ai_response,
                 PipelineEffects(ai_response), 0, 0)
    ELSE Handled("support", NONE, inquiry, "none", NoVerdict(S), 200,
                 "Your inquiry has been received. Our support team will respond soon.",
                 ai_response, PipelineEffects(ai_response), 1,
                 IF email_ok THEN 1 ELSE 0)

\* routes/support.py submit_support_inquiry
submit_support_inquiry(S, inquiry, sim, faqs, gem, db_ok, email_ok) ==
    Inquired(S, inquiry, PipelineResults[<<inquiry, faqs, sim, gem>>],
             MeaningfulAnswer[<<inquiry, faqs, sim, gem>>], db_ok, email_ok)

\* what the state keeps of a handled request; sim is kept for a call of
\* search_and_generate on its own
RequestOf(h) ==
    [entry |-> h.entry, user |-> h.user, query |-> h.query, gate |-> h.gate,
     status |-> h.status, detail |-> h.detail, result |-> h.result,
     effects |-> h.effects, sim |-> <<>>]

NoRequest == [entry |-> "none", user |-> NONE, query |-> "", gate |-> "none",
              status |-> 200, detail |-> "", result |-> NoResponse, effects |-> {},
              sim |-> <<>>]

(***************************************************************************)
(* Safety gate: initial states and actions                                 *)
(***************************************************************************)
\* no request in flight
NoLoop == [running |-> 0, tasks |-> <<>>, before |-> <<>>]

NoCall == [user |-> "", query |-> "", allowed |-> TRUE, message |-> "",
           check |-> "init", fault |-> NO_FAULT, at |-> 0,
           preHistory |-> <<>>, preWarnings |-> 0, preBlocked |-> FALSE]

\* ChatbotSafety.__init__, for the user keys that will call
InitSafety(users) ==
    /\ user_message_history = [u \in users |-> <<>>]
    /\ user_warnings = [u \in users |-> 0]
    /\ blocked_users = {}
    /\ now = 0
    /\ calls = 0
    /\ last = NoCall
    /\ rejected = [u \in users |-> 0]
    /\ rejectedSinceReset = [u \in users |-> 0]
    /\ accepted = [u \in users |-> <<>>]

\* nothing handled, nothing stored
InitStores ==
    /\ request = NoRequest
    /\ memory_interactions = 0
    /\ analytics_interactions = 0
    /\ contacts = 0
    /\ support_emails = 0

Init ==
    /\ InitSafety(UserKeys)
    /\ faq_collection = <<>>
    /\ gemini = NoGemini
    /\ event_loop = NoLoop
    /\ InitStores

WarningMessages == {REPEAT_MSG, SPAM_MSG, ABUSE_MSG, INJECTION_MSG}

\* the safety state after a validate_query call that returned r
Validated(user_id, query, r) ==
    LET warned == ~r.allowed /\ r.message \in WarningMessages
    IN  /\ user_message_history' = r.state.history
        /\ user_warnings' = r.state.warnings
        /\ blocked_users' = r.state.blocked
        /\ last' = [user |-> user_id, query |-> query, allowed |-> r.allowed,
                    message |-> r.message, check |-> r.check, fault |-> r.fault,
                    at |-> now,
                    preHistory |-> user_message_history[user_id],
                    preWarnings |-> user_warnings[user_id],
                    preBlocked |-> user_id \in blocked_users]
        /\ rejected' = [rejected EXCEPT ![user_id] = @ + (IF warned THEN 1 ELSE 0)]
        /\ rejectedSinceReset' =
              [rejectedSinceReset EXCEPT ![user_id] =
                  IF r.check = "malicious" THEN 0
                  ELSE @ + (IF warned THEN 1 ELSE 0)]
        /\ accepted' =
              [accepted EXCEPT ![user_id] =
                  IF r.check = "malicious" THEN <<>>
                  ELSE IF r.allowed THEN Append(@, <<query, now>>)
                  ELSE @]

NotValidated ==
    UNCHANGED <<user_message_history, user_warnings, blocked_users, last,
                rejected, rejectedSinceReset, accepted>>

\* one call safety.validate_query(user_id, query)
ValidateQuery(user_id, query) ==
    /\ calls < MaxCalls
    /\ Validated(user_id, query, validate_query(SafetyState, user_id, query, now))
    /\ calls' = calls + 1
    /\ now' = now
    /\ UNCHANGED <<environmentVars, request, storeVars>>

\* one call safety.validate_query(user_id, query) during which fault raises
ValidateQueryFault(user_id, query, fault) ==
    /\ calls < MaxCalls
    /\ Validated(user_id, query,
                 validate_query_on(SafetyState, user_id, query, now, fault))
    /\ calls' = calls + 1
    /\ now' = now
    /\ UNCHANGED <<environmentVars, request, storeVars>>

\* time passes
Tick ==
    /\ now < MaxTicks * TickSeconds
    /\ now' = now + TickSeconds
    /\ UNCHANGED <<user_message_history, user_warnings, blocked_users, calls, last,
                   rejected, rejectedSinceReset, accepted>>
    /\ UNCHANGED <<environmentVars, request, storeVars>>

Next ==
    \/ \E user_id \in UserKeys, query \in SafetyQueries : ValidateQuery(user_id, query)
    \/ Tick

Spec == Init /\ [][Next]_vars

(***************************************************************************)
(* The orchestrator on its own: one call of search_and_generate, for every *)
(* FAQ collection and generator state                                      *)
(***************************************************************************)
InitPipeline ==
    /\ InitSafety(UserKeys)
    /\ faq_collection \in Corpora
    /\ gemini \in GeminiStates
    /\ event_loop = NoLoop
    /\ InitStores

\* what the state keeps of a call that returned result
PipelineRequest(query, sim, result) ==
    [entry |-> "pipeline", user |-> NONE, query |-> query, gate |-> "none",
     status |-> 200, detail |-> "", result |-> result,
     effects |-> PipelineEffects(result), sim |-> sim]

\* one call rag_service.search_and_generate(query); sim is what
\* calculate_similarity gives for the query and each FAQ, fault the stage that
\* raises an exception
SearchAndGenerate(query, sim, fault) ==
    /\ request.entry = "none"
    /\ request' = PipelineRequest(query, sim,
                                   search_and_generate(query, faq_collection, sim, gemini,
                                                       fault))
    /\ UNCHANGED <<safetyVars, environmentVars, storeVars>>

\* the calls in which no stage raises, but for the generator
NextPipeline ==
    \E query \in PipelineQueries, sim \in SimRows(Len(faq_collection)) :
        SearchAndGenerate(query, sim, NO_FAULT)

SpecPipeline == InitPipeline /\ [][NextPipeline]_vars

(***************************************************************************)
(* The orchestrator when a stage raises an exception                       *)
(***************************************************************************)
\* template, retrieval with a vehicle query, retrieval with another query
FaultQueries == {"how do i register", "add a car", "fuel cost"}

\* no match, a match the context check may reject, an exact match
FaultSimPairs == {[question |-> 0, answer |-> 0], [question |-> 450, answer |-> 0],
                  [question |-> 1000, answer |-> 1000]}
FaultSimRows(n) == [1..n -> FaultSimPairs]

\* no generator, a generator that answers, a generator that raises
FaultGeminiStates ==
    RouteGeminiStates \cup {[api_key |-> "key", model |-> TRUE, reply |-> RAISES]}

InitFaults ==
    /\ InitSafety(UserKeys)
    /\ faq_collection \in RouteCorpora
    /\ gemini \in FaultGeminiStates
    /\ event_loop = NoLoop
    /\ InitStores

NextFaults ==
    \E query \in FaultQueries, sim \in FaultSimRows(Len(faq_collection)),
       fault \in Faults :
        SearchAndGenerate(query, sim, fault)

SpecFaults == InitFaults /\ [][NextFaults]_vars

(***************************************************************************)
(* The two routes that reach the orchestrator, sharing the safety gate     *)
(***************************************************************************)
MaxRequests == 4

InitRoutes ==
    /\ InitSafety(RouteUsers)
    /\ faq_collection \in RouteCorpora
    /\ gemini \in RouteGeminiStates
    /\ event_loop = NoLoop
    /\ InitStores

\* what a handler leaves in the stores
Stored(h) ==
    /\ request' = RequestOf(h)
    /\ memory_interactions' = memory_interactions + h.memory_writes
    /\ analytics_interactions' = analytics_interactions + h.analytics_writes
    /\ contacts' = contacts + h.tickets
    /\ support_emails' = support_emails + h.emails

\* what search_faqs leaves in the safety state and in the stores
Served(query, h) ==
    /\ IF h.gate = "skipped" THEN NotValidated
       ELSE Validated(h.user, query, h.verdict)
    /\ Stored(h)

\* POST /api/faq/search
SearchFaqs(client, query, sim) ==
    /\ calls < MaxRequests
    /\ Served(query, search_faqs_route(SafetyState, client, query, sim,
                                        faq_collection, gemini, now))
    /\ calls' = calls + 1
    /\ now' = now
    /\ UNCHANGED environmentVars

\* POST /api/support/inquire
SubmitSupportInquiry(inquiry, sim, db_ok, email_ok) ==
    /\ calls < MaxRequests
    /\ Stored(submit_support_inquiry(SafetyState, inquiry, sim, faq_collection,
                                      gemini, db_ok, email_ok))
    /\ NotValidated
    /\ calls' = calls + 1
    /\ now' = now
    /\ UNCHANGED environmentVars

\* the requests of one client session, made within one spam window
NextRoutes ==
    \/ \E client \in Clients, query \in RouteQueries,
          sim \in RouteSimRows(Len(faq_collection)) :
           SearchFaqs(client, query, sim)
    \/ \E inquiry \in RouteQueries, sim \in RouteSimRows(Len(faq_collection)),
          db_ok \in BOOLEAN, email_ok \in BOOLEAN :
           SubmitSupportInquiry(inquiry, sim, db_ok, email_ok)

SpecRoutes == InitRoutes /\ [][NextRoutes]_vars

(***************************************************************************)
(* A long-running process: the first user has already had PrefillLen       *)
(* queries accepted, ten minutes apart (so none was a repetition), the     *)
(* last of them ten minutes ago, and goes on calling.                      *)
(***************************************************************************)
LongRunUser == "10.0.0.1"

Prefill == [i \in 1..PrefillLen |-> <<"fuel cost", -600 * (PrefillLen - i + 1)>>]

InitLongRun ==
    /\ user_message_history = [u \in UserKeys |-> IF u = LongRunUser THEN Prefill ELSE <<>>]
    /\ user_warnings = [u \in UserKeys |-> 0]
    /\ blocked_users = {}
    /\ now = 0
    /\ calls = 0
    /\ last = NoCall
    /\ rejected = [u \in UserKeys |-> 0]
    /\ rejectedSinceReset = [u \in UserKeys |-> 0]
    /\ accepted = [u \in UserKeys |-> IF u = LongRunUser THEN Prefill ELSE <<>>]
    /\ faq_collection = <<>>
    /\ gemini = NoGemini
    /\ event_loop = NoLoop
    /\ InitStores

NextLongRun ==
    \/ \E query \in SafetyQueries : ValidateQuery(LongRunUser, query)
    \/ Tick

SpecLongRun == InitLongRun /\ [][NextLongRun]_vars

(***************************************************************************)
(* Safety gate: properties                                                 *)
(***************************************************************************)
IsCall == last.check # "init"

\* the caller's entry as the last call left it
HistoryNow == user_message_history[last.user]
WarningsNow == user_warnings[last.user]
BlockedNow == last.user \in blocked_users

\* how many entries of history h, less than five minutes old at t, equal q up to case
RepeatCount(h, q, t) ==
    Cardinality({i \in 1..Len(h) : t - h[i][2] < 300 /\ LowerOf[h[i][1]] = LowerOf[q]})

\* what the last call's query triggers, from the caller's state before the call
TriggersSpam == RepeatCount(last.preHistory, last.query, last.at) >= 3
                    \/ HasSpamKeyword[last.query]
TriggersAbuse == HasAbusePattern[last.query]
TriggersInjection == HasInjectionKeyword[last.query]
TriggersMalicious == HasMaliciousPattern[last.query]

CallerUnchanged ==
    /\ HistoryNow = last.preHistory
    /\ WarningsNow = last.preWarnings
    /\ BlockedNow = last.preBlocked

CallerWarned ==
    /\ HistoryNow = last.preHistory
    /\ WarningsNow = last.preWarnings + 1
    /\ BlockedNow = (last.preWarnings + 1 >= 3)

CallerReset ==
    /\ HistoryNow = <<>>
    /\ WarningsNow = 0
    /\ ~BlockedNow

\* a call from a blocked user is rejected with the access-restricted message
BlockedCallRejected ==
    (IsCall /\ last.preBlocked) =>
        (~last.allowed /\ last.message = BLOCKED_MSG /\ last.check = "blocked")

\* C1 as stated: a user with three calls rejected by the spam, abuse or injection
\* checks, anywhere in the user's calls, is blocked, and a blocked user's call is
\* rejected with the access-restricted message.
C1_EscalationAnywhere ==
    /\ \A u \in UserKeys : rejected[u] >= 3 => u \in blocked_users
    /\ BlockedCallRejected

\* C1 as amended: a user with three calls rejected by the spam, abuse or injection
\* checks since the user's last malicious-payload reset is blocked, and a blocked
\* user's call is rejected with the access-restricted message.
C1_EscalationSinceReset ==
    /\ \A u \in UserKeys : rejectedSinceReset[u] >= 3 => u \in blocked_users
    /\ BlockedCallRejected

\* a fourth call from a user blocked by three warnings
C1_Witness ==
    /\ IsCall
    /\ last.preBlocked
    /\ rejectedSinceReset[last.user] >= 3
    /\ last.message = BLOCKED_MSG

\* C2: the third submission of one query within five minutes, from an empty
\* history, is rejected as spam.
C2_ThirdRepeatIsSpam ==
    (/\ IsCall
     /\ Len(last.preHistory) = 2
     /\ \A i \in 1..2 : /\ last.preHistory[i][1] = last.query
                        /\ last.at - last.preHistory[i][2] < 300)
    => (~last.allowed /\ last.check = "spam")

\* the last request was a call of search_and_generate on its own
IsPipelineCall == request.entry = "pipeline"

\* the stages of retrieval and generation that search_and_generate can invoke
RetrievalStages == {"corpus", "lexical", "override", "context", "generator"}

\* C3: every response of search_and_generate with is_grounded = true carries a
\* non-empty list of matched entries, each of which scored at least the acceptance
\* threshold at retrieval, on every path, the direct-answer template path included.
C3_GroundedHasMatches ==
    (IsPipelineCall /\ request.result.is_grounded) =>
        /\ request.result.relevant_faqs # <<>>
        /\ \A n \in 1..Len(request.result.matches) :
              request.result.matches[n].similarity_score >= SEARCH_THRESHOLD

\* C4: on every entry point that invokes the pipeline, a query reaches FAQ
\* retrieval or the external generator only after validate_query has accepted it
\* for the caller's user key.
C4_GateBeforePipeline ==
    (request.effects \cap {"corpus", "lexical", "generator"} # {}) =>
        request.gate = "accepted"

\* C5: when validate_query rejects the query of a request, the request ends with
\* the rejection message, and nothing is retrieved, generated, built or persisted
\* as analytics, or written to the interaction memory for it.
C5_RejectionTerminal ==
    [][(calls' = calls + 1 /\ request'.gate = "rejected") =>
          /\ ~last'.allowed
          /\ last'.query = request'.query
          /\ request'.status = 400
          /\ request'.detail = last'.message
          /\ request'.result = NoResponse
          /\ request'.effects = {}
          /\ UNCHANGED storeVars]_vars

\* a search request rejected for abuse, from a client whose earlier request was
\* answered and recorded
C5_Witness ==
    /\ request.entry = "faq_search"
    /\ request.gate = "rejected"
    /\ request.user = "10.0.0.1"
    /\ request.detail = ABUSE_MSG
    /\ memory_interactions > 0
    /\ analytics_interactions > 0

\* C6: a call from a blocked user is rejected with the access-restricted message
\* and leaves the user's history, warning count and blocked flag as they were,
\* whatever the query.
C6_BlockedNoSideEffects ==
    (IsCall /\ last.preBlocked) =>
        /\ ~last.allowed
        /\ last.message = BLOCKED_MSG
        /\ CallerUnchanged
        /\ BlockedNow

\* a blocked user has sent a malicious-payload query
C6_Witness ==
    /\ IsCall
    /\ last.preBlocked
    /\ TriggersMalicious
    /\ last.preWarnings >= 3

\* C7: a query of a non-blocked user that passes the spam, abuse and injection
\* checks and matches a malicious pattern is rejected, and the user's state is
\* reset: empty history, no warnings (none added), not blocked.
C7_MaliciousReset ==
    (/\ IsCall
     /\ ~last.preBlocked
     /\ ~TriggersSpam
     /\ ~TriggersAbuse
     /\ ~TriggersInjection
     /\ TriggersMalicious)
    => (/\ ~last.allowed
        /\ last.message = MALICIOUS_MSG
        /\ CallerReset)

\* a malicious-payload query has reset a user who had history and a warning
C7_Witness ==
    /\ IsCall
    /\ last.message = MALICIOUS_MSG
    /\ last.preWarnings > 0
    /\ last.preHistory # <<>>
    /\ ~TriggersAbuse

\* C8: a history holds at most 50 entries and is the most recent (at most 50)
\* accepted queries since the last reset, in arrival order; an accepted query is
\* the last entry.
C8_BoundedFifo ==
    /\ \A u \in UserKeys :
          LET h == user_message_history[u]
              a == accepted[u]
          IN  /\ Len(h) <= 50
              /\ Len(h) = (IF Len(a) > 50 THEN 50 ELSE Len(a))
              /\ \A i \in 1..Len(h) : h[i] = a[Len(a) - Len(h) + i]
    /\ (IsCall /\ last.allowed) =>
          /\ HistoryNow # <<>>
          /\ HistoryNow[Len(HistoryNow)] = <<last.query, last.at>>

\* an accepted query has pushed the oldest entry out of a full history
C8_Witness ==
    /\ IsCall
    /\ last.allowed
    /\ Len(last.preHistory) = 50
    /\ Len(accepted[last.user]) > 50

\* the check that decides the last call: the first of blocked, spam, abuse,
\* injection, malicious that the query triggers
FirstFailure ==
    IF last.preBlocked THEN "blocked"
    ELSE IF TriggersSpam THEN "spam"
    ELSE IF TriggersAbuse THEN "abuse"
    ELSE IF TriggersInjection THEN "injection"
    ELSE IF TriggersMalicious THEN "malicious"
    ELSE "none"

\* C9: the checks run in the order blocked, spam, abuse, injection, malicious, and
\* the message and the state change of a call are those of the first check the
\* query triggers.
C9_FirstFailureWins ==
    IsCall =>
        CASE FirstFailure = "blocked" ->
                ~last.allowed /\ last.message = BLOCKED_MSG /\ CallerUnchanged
          [] FirstFailure = "spam" ->
                ~last.allowed /\ last.message \in {REPEAT_MSG, SPAM_MSG} /\ CallerWarned
          [] FirstFailure = "abuse" ->
                ~last.allowed /\ last.message = ABUSE_MSG /\ CallerWarned
          [] FirstFailure = "injection" ->
                ~last.allowed /\ last.message = INJECTION_MSG /\ CallerWarned
          [] FirstFailure = "malicious" ->
                ~last.allowed /\ last.message = MALICIOUS_MSG /\ CallerReset
          [] OTHER ->
                last.allowed /\ last.message = ""
                    /\ WarningsNow = last.preWarnings /\ BlockedNow = last.preBlocked

\* a query matching an abuse pattern and a malicious pattern, from a user with
\* history, got the abuse answer
C9_Witness ==
    /\ IsCall
    /\ ~last.preBlocked
    /\ TriggersAbuse
    /\ TriggersMalicious
    /\ last.preHistory # <<>>
    /\ last.message = ABUSE_MSG

\* C10: for every query whose coarse domain is registration or password_help,
\* search_and_generate returns the canned answer of that domain with
\* faq_matched = false, similarity_score = 1.0, is_grounded = true and
\* grounding_confidence = 1.0, and invokes neither the corpus provider, the lexical
\* matcher, the override and context checks, nor the generator.
C10_TemplateShortCircuit ==
    LET domain == classify_query_intent(request.query)
    IN  (IsPipelineCall /\ domain \in {"registration", "password_help"}) =>
            /\ request.result.answer = IF domain = "registration"
                                       THEN REGISTRATION_TEMPLATE
                                       ELSE PASSWORD_TEMPLATE
            /\ ~request.result.analytics.faq_matched
            /\ request.result.analytics.similarity_score = 1000
            /\ request.result.is_grounded
            /\ request.result.grounding_confidence = 1000
            /\ request.effects \cap RetrievalStages = {}

\* a password query answered from the template although there were FAQs to
\* search and a generator to call
C10_Witness ==
    /\ IsPipelineCall
    /\ classify_query_intent(request.query) = "password_help"
    /\ faq_collection # <<>>
    /\ gemini.model
    /\ request.result.answer = PASSWORD_TEMPLATE
    /\ request.effects = {"analytics_built"}

(***************************************************************************)
(* Properties of the orchestrator's outcomes                               *)
(***************************************************************************)
\* the call reached Step 1, the retrieval
ReachedRetrieval == IsPipelineCall /\ "corpus" \in request.effects

\* the override rule: the domain of the query against the words of a question
DomainConflict(query_intent, question) ==
    \/ /\ query_intent = "registration"
       /\ ContainsAny(Lower(question), {"password", "forgot", "reset"})
    \/ /\ query_intent = "password_help"
       /\ ContainsAny(Lower(question), {"register", "sign up", "create account"})
    \/ /\ query_intent = "vehicle_management"
       /\ ContainsAny(Lower(question), {"maintenance", "service", "repair"})

\* the top retrieved match conflicts with the domain of the query
TopMatchConflicts ==
    /\ ReachedRetrieval
    /\ request.result.retrieved # <<>>
    /\ DomainConflict(classify_query_intent(request.query),
                      request.result.retrieved[1].question)

\* the fixed no-match message for a query
NoMatchText(query) ==
    "I couldn't find information about '" \o query
    \o "' in our FAQ database. Please contact our support team at support@fleety.com for assistance."

\* the response is the no-match outcome
IsNoMatchOutcome ==
    /\ request.result.answer = NoMatchText(request.query)
    /\ request.result.relevant_faqs = <<>>
    /\ ~request.result.is_grounded
    /\ request.result.grounding_confidence = 0

\* C11: whenever retrieval returns at least one match and the top match's question
\* conflicts with the query's domain under the override rule, all matches are
\* discarded and the response is the no-match outcome, however many matches were
\* retrieved.
C11_ConflictDiscardsAll == TopMatchConflicts => IsNoMatchOutcome

\* the same with two matches or more retrieved, where the code does apply the rule
C11_ConflictOfSeveralDiscardsAll ==
    (TopMatchConflicts /\ Len(request.result.retrieved) >= 2) => IsNoMatchOutcome

C11_SeveralWitness ==
    /\ TopMatchConflicts
    /\ Len(request.result.retrieved) >= 2
    /\ "override" \in request.effects
    /\ IsNoMatchOutcome

\* matches remain after the override check
MatchesRemain ==
    /\ ReachedRetrieval
    /\ request.result.retrieved # <<>>
    /\ ~should_override_similar_matches(request.query, request.result.retrieved,
                                        classify_query_intent(request.query))

\* the Context Validator rejects the top match that remains
ContextRejected ==
    /\ MatchesRemain
    /\ ~validate_context_appropriateness(request.query, request.result.retrieved,
                                         request.result.retrieved[1].similarity_score)

\* the clarification request for a query
ClarificationText(query) ==
    "I want to make sure I understand your question correctly. You asked about '"
    \o query \o "'. Could you provide more details so I can give you accurate information? For example, are you trying to [register/add a vehicle/track maintenance/etc.]?"

\* C12: when matches remain after the override check and the Context Validator
\* rejects the top match, the response is the clarification request with
\* grounding_confidence 0.3, is_grounded false, no matched entries and analytics
\* faq_matched false, the generator and the grounder are not invoked, and the
\* response is not the no-match outcome.
C12_ContextMismatchClarifies ==
    ContextRejected =>
        /\ request.result.answer = ClarificationText(request.query)
        /\ request.result.grounding_confidence = CLARIFICATION_CONFIDENCE
        /\ ~request.result.is_grounded
        /\ request.result.relevant_faqs = <<>>
        /\ ~request.result.analytics.faq_matched
        /\ request.effects \cap {"generator", "grounder"} = {}
        /\ ~IsNoMatchOutcome

\* a context mismatch with a generator that would have answered
C12_Witness ==
    /\ ContextRejected
    /\ GeneratorCalled(gemini)
    /\ gemini.reply \notin {RAISES, NONE}
    /\ request.result.grounding_confidence = CLARIFICATION_CONFIDENCE
    /\ "context" \in request.effects

\* C13: when FAQ.find_all gives no entry (the corpus is empty, or the fetch and its
\* fallback failed), every non-empty query is answered with the fixed no-match
\* message, is_grounded false and grounding confidence 0.0, without a generator
\* call.
C13_EmptyCorpusNoMatch ==
    (IsPipelineCall /\ faq_collection = <<>> /\ request.query # "") =>
        /\ IsNoMatchOutcome
        /\ "generator" \notin request.effects

\* the same for the queries that reach retrieval
C13_EmptyCorpusNoMatchAtRetrieval ==
    (ReachedRetrieval /\ faq_collection = <<>> /\ request.query # "") =>
        /\ IsNoMatchOutcome
        /\ "generator" \notin request.effects

\* the staleness markers
StalenessMarkers == {"coming soon", "will be available", "future release", "planned for",
                     "deprecated", "no longer", "obsolete"}

\* the answer of an entry contains a staleness marker
IsStale(entry) == ContainsAny(Lower(entry.answer), StalenessMarkers)

NoStaleIn(entries) == \A n \in 1..Len(entries) : ~IsStale(entries[n])

\* C14: no FAQ entry whose answer contains a staleness marker appears in the
\* matched entries of a response, and none is among the entries retrieval hands on:
\* the entries the generator and the grounder are given are the matches kept.
C14_NoStaleEntry ==
    IsPipelineCall =>
        /\ NoStaleIn(request.result.relevant_faqs)
        /\ NoStaleIn(request.result.retrieved)
        /\ (request.effects \cap {"generator", "grounder"} # {}) =>
               NoStaleIn(request.result.matches)

\* a stale entry with the best lexical score of the corpus, and a fresh entry
\* answered from by the generator and grounded
C14_Witness ==
    /\ ReachedRetrieval
    /\ \E i \in 1..Len(faq_collection) :
          /\ IsStale(faq_collection[i])
          /\ request.sim[i].question = 1000
    /\ request.result.relevant_faqs # <<>>
    /\ {"generator", "grounder"} \subseteq request.effects

\* the generator is not there, or its call fails (it raises, or its text is None)
GeneratorUnavailable == ~GeneratorCalled(gemini)
GeneratorFails == GeneratorCalled(gemini) /\ gemini.reply \in {RAISES, NONE}

\* the call went on to synthesize an answer from its matches
Synthesized ==
    /\ ReachedRetrieval
    /\ request.result.matches # <<>>
    /\ "grounder" \in request.effects

\* C15: when matches exist and the generator is unavailable or its call fails, the
\* answer handed to the grounder is exactly the answer text of the top-ranked
\* retrieved entry; the generator is called at most once for a query, never when
\* it is unavailable, and the call returns a response all the same.
C15_FallbackIsTopAnswer ==
    /\ (Synthesized /\ (GeneratorUnavailable \/ GeneratorFails)) =>
          /\ request.result.generated_answer = request.result.retrieved[1].answer
          /\ request.status = 200
          /\ request.result.answer \notin {RAISES, NONE}
    /\ IsPipelineCall =>
          /\ request.result.generator_calls <= 1
          /\ GeneratorUnavailable => request.result.generator_calls = 0

\* the generator was called, it failed, and the answer is the top entry's
C15_Witness ==
    /\ Synthesized
    /\ GeneratorFails
    /\ gemini.reply = RAISES
    /\ request.result.generator_calls = 1
    /\ request.result.generated_answer = request.result.retrieved[1].answer
    /\ Len(request.result.retrieved) >= 2

\* C16: for every query, every corpus content and every generator behaviour,
\* search_and_generate returns a response whose answer is a non-null, non-empty
\* string.
C16_AnswerNonEmpty ==
    IsPipelineCall => request.result.answer \notin {"", NONE, RAISES}

\* the same when the generator is not called or its text has something in it
C16_AnswerNonEmptyUnlessBlankText ==
    (IsPipelineCall /\ ~(GeneratorCalled(gemini) /\ gemini.reply \notin {RAISES, NONE}
                                                  /\ IsBlank(gemini.reply)))
        => request.result.answer \notin {"", NONE, RAISES}

\* a stage of the call raised an exception
ExceptionRaised == IsPipelineCall /\ request.result.error # NONE

\* the response of the error state, with its one analytics record
IsErrorState ==
    /\ ~request.result.raised
    /\ ~request.result.is_grounded
    /\ request.result.grounding_confidence = 0
    /\ request.result.relevant_faqs = <<>>
    /\ "analytics_built" \in request.effects
    /\ ~request.result.analytics.faq_matched
    /\ request.result.analytics.similarity_score = 0

\* C17: an exception raised at any stage of search_and_generate (classification,
\* retrieval, override, context validation, generation, grounding, analytics
\* tagging) never escapes the call, and the call returns a response with
\* is_grounded false, grounding_confidence 0.0, no matched entries and one analytics
\* record with faq_matched false and similarity_score 0.
C17_ErrorState == ExceptionRaised => IsErrorState

\* the stages whose exception does end in the error state, build_metadata raising
\* once only
C17_ErrorStateOfCaughtStages ==
    (ExceptionRaised /\ ~request.result.raised
       /\ request.result.error \in {"classification", "retrieval", "override", "context",
                                    "analytics"})
        => IsErrorState

\* the exception of the generator ends in a grounded answer
C17_GeneratorExceptionGrounded ==
    /\ ExceptionRaised
    /\ request.result.error = "generation"
    /\ request.result.is_grounded
    /\ request.result.relevant_faqs # <<>>

\* the exception of build_metadata, raised again in the handler, leaves the call
C17_AnalyticsExceptionEscapes ==
    /\ ExceptionRaised
    /\ request.result.error = "analytics"
    /\ request.result.raised

(***************************************************************************)
(* The safety gate when one of its functions raises                        *)
(***************************************************************************)
\* the caller whose calls raise
FaultUser == "10.0.0.1"

NextGateFaults ==
    \/ \E query \in SafetyQueries : ValidateQuery(FaultUser, query)
    \/ \E query \in SafetyQueries, fault \in SafetyFaults :
          ValidateQueryFault(FaultUser, query, fault)

SpecGateFaults == Init /\ [][NextGateFaults]_vars

\* a function raised during the last call of validate_query
ErrorDuringCall == last.check # "init" /\ last.fault # NO_FAULT

CheckFaults == {"check_spam", "check_abusive_language", "check_prompt_injection",
                "check_malicious_request"}

\* the caller's safety state is what it was before the last call
StateUnchanged ==
    /\ user_message_history[last.user] = last.preHistory
    /\ user_warnings[last.user] = last.preWarnings
    /\ (last.user \in blocked_users) = last.preBlocked

\* the last call counted one warning, and blocked the caller at the third
WarningApplied ==
    /\ user_message_history[last.user] = last.preHistory
    /\ user_warnings[last.user] = last.preWarnings + 1
    /\ (last.user \in blocked_users) = (last.preBlocked \/ last.preWarnings + 1 >= 3)

\* the last call appended the query to the caller's history
HistoryAppended ==
    /\ user_message_history[last.user] =
          LastN(Append(last.preHistory, <<last.query, last.at>>), HISTORY_CAP)
    /\ user_warnings[last.user] = last.preWarnings
    /\ (last.user \in blocked_users) = last.preBlocked

\* the last call reset the caller
ResetApplied ==
    /\ user_message_history[last.user] = <<>>
    /\ user_warnings[last.user] = 0
    /\ last.user \notin blocked_users

\* C18: when a function raises inside validate_query or inside one of its checks,
\* the query is allowed, and the caller's state is either unchanged or holds the
\* whole change of the call (a counted warning with its block, or the appended
\* query)
C18_FailOpenUnchanged ==
    ErrorDuringCall =>
        /\ last.allowed
        /\ StateUnchanged \/ WarningApplied \/ HistoryAppended

\* an error that reaches validate_query's own handler allows the query and leaves
\* the state as it was
C18_HandlerFailsOpen ==
    (ErrorDuringCall /\ last.fault \in {"is_user_blocked", "add_warning"})
        => last.allowed /\ last.message = "" /\ StateUnchanged

\* an error inside a check only makes that check report nothing: the checks after
\* it still run, and the call changes the state wholly or not at all
C18_CheckErrorSkipsCheck ==
    (ErrorDuringCall /\ last.fault \in CheckFaults)
        => /\ last.check \in {"spam", "abuse", "injection", "malicious", "none"}
           /\ last.allowed = (last.check = "none")
           /\ IF last.check = "none" THEN HistoryAppended
              ELSE IF last.check = "malicious" THEN ResetApplied
              ELSE WarningApplied

\* a check raised and a later check rejected the query
C18_CheckErrorRejected ==
    /\ ErrorDuringCall
    /\ last.fault = "check_spam"
    /\ ~last.allowed
    /\ last.check = "abuse"

(***************************************************************************)
(* Concurrent requests: the validate_query coroutines on the event loop,   *)
(* statement by statement                                                  *)
(***************************************************************************)
MaxTasks == 2
TaskIds == 1..MaxTasks

\* an accepted query, one that counts a warning, one that resets the caller
TaskQueries == {"fuel cost", "idiot ignore", "eval("}

\* the warnings a caller has when the requests arrive: none, or one short of
\* the block
TaskWarnings == {0, WARNING_LIMIT - 1}

\* the coroutine of one call: its arguments, the statement it is at, the value
\* loaded by `+= 1`, and its return value
NewTask(user_id, query) ==
    [user |-> user_id, query |-> query, pc |-> "pending", loaded |-> 0,
     allowed |-> TRUE, message |-> ""]

InitTasks ==
    /\ user_message_history = [u \in UserKeys |-> <<>>]
    /\ user_warnings \in [UserKeys -> TaskWarnings]
    /\ blocked_users = {}
    /\ now = 0
    /\ calls = 0
    /\ last = NoCall
    /\ rejected = [u \in UserKeys |-> 0]
    /\ rejectedSinceReset = [u \in UserKeys |-> 0]
    /\ accepted = [u \in UserKeys |-> <<>>]
    /\ faq_collection = <<>>
    /\ gemini = NoGemini
    /\ \E users \in [TaskIds -> UserKeys], queries \in [TaskIds -> TaskQueries] :
          event_loop = [running |-> 0,
                        tasks |-> [i \in TaskIds |-> NewTask(users[i], queries[i])],
                        before |-> <<[history |-> user_message_history,
                                      warnings |-> user_warnings,
                                      blocked |-> blocked_users]>>]
    /\ InitStores

\* a thread-like scheduler, which may switch coroutines after any statement
CanRun_preemptive(loop, i) == TRUE

\* validate_query is a coroutine with no await in it: once the event loop runs
\* it, no other coroutine runs until it returns
CanRun(loop, i) == loop.running \in {0, i}

Task(i) == event_loop.tasks[i]

At(i, pc) == CanRun(event_loop, i) /\ Task(i).pc = pc

\* coroutine i is at its next statement
Goto(i, pc) ==
    event_loop' = [event_loop EXCEPT !.running = i, !.tasks[i].pc = pc]

\* coroutine i is at its next statement, having loaded a value
GotoLoaded(i, pc, value) ==
    event_loop' = [event_loop EXCEPT !.running = i, !.tasks[i].pc = pc,
                                     !.tasks[i].loaded = value]

\* coroutine i goes on to the function that handles its verdict
GotoVerdict(i, pc, allowed, message) ==
    event_loop' = [event_loop EXCEPT !.running = i, !.tasks[i].pc = pc,
                                     !.tasks[i].allowed = allowed,
                                     !.tasks[i].message = message]

\* coroutine i returns, and the event loop is free
Return(i) ==
    event_loop' = [event_loop EXCEPT !.running = 0, !.tasks[i].pc = "done"]

\* coroutine i returns (False, message) at once
ReturnRejected(i, message) ==
    event_loop' = [event_loop EXCEPT !.running = 0, !.tasks[i].pc = "done",
                                     !.tasks[i].allowed = FALSE,
                                     !.tasks[i].message = message]

TaskFrame ==
    UNCHANGED <<now, calls, last, rejected, rejectedSinceReset, accepted,
                faq_collection, gemini, request, storeVars>>

\* if self.is_user_blocked(user_id): return False, ...
IsUserBlocked(i) ==
    /\ At(i, "pending")
    /\ IF is_user_blocked(SafetyState, Task(i).user)
       THEN ReturnRejected(i, BLOCKED_MSG)
       ELSE Goto(i, "checks")
    /\ UNCHANGED <<user_message_history, user_warnings, blocked_users>>
    /\ TaskFrame

\* the four checks, which read the state and change nothing
RunChecks(i) ==
    /\ At(i, "checks")
    /\ LET spam == check_spam(SafetyState, Task(i).user, Task(i).query, now)
           abuse == check_abusive_language(Task(i).query)
           injection == check_prompt_injection(Task(i).query)
           malicious == check_malicious_request(Task(i).query)
       IN  IF spam[1] THEN GotoVerdict(i, "add_warning", FALSE, spam[2])
           ELSE IF abuse[1] THEN GotoVerdict(i, "add_warning", FALSE, abuse[2])
           ELSE IF injection[1] THEN GotoVerdict(i, "add_warning", FALSE, injection[2])
           ELSE IF malicious[1] THEN GotoVerdict(i, "reset_user", FALSE, malicious[2])
           ELSE GotoVerdict(i, "record_message", TRUE, "")
    /\ UNCHANGED <<user_message_history, user_warnings, blocked_users>>
    /\ TaskFrame

\* add_warning: self.user_warnings[user_id] += 1, the load
LoadWarnings(i) ==
    /\ At(i, "add_warning")
    /\ GotoLoaded(i, "store_warnings", user_warnings[Task(i).user])
    /\ UNCHANGED <<user_message_history, user_warnings, blocked_users>>
    /\ TaskFrame

\* add_warning: self.user_warnings[user_id] += 1, the store
StoreWarnings(i) ==
    /\ At(i, "store_warnings")
    /\ user_warnings' = [user_warnings EXCEPT ![Task(i).user] = Task(i).loaded + 1]
    /\ Goto(i, "warning_count")
    /\ UNCHANGED <<user_message_history, blocked_users>>
    /\ TaskFrame

\* add_warning: warning_count = ...; if warning_count >= 3: blocked_users.add
BlockAtLimit(i) ==
    /\ At(i, "warning_count")
    /\ blocked_users' = IF user_warnings[Task(i).user] >= WARNING_LIMIT
                        THEN blocked_users \cup {Task(i).user}
                        ELSE blocked_users
    /\ Return(i)
    /\ UNCHANGED <<user_message_history, user_warnings>>
    /\ TaskFrame

\* reset_user: self.blocked_users.discard(user_id)
DiscardBlocked(i) ==
    /\ At(i, "reset_user")
    /\ blocked_users' = blocked_users \ {Task(i).user}
    /\ Goto(i, "reset_warnings")
    /\ UNCHANGED <<user_message_history, user_warnings>>
    /\ TaskFrame

\* reset_user: self.user_warnings[user_id] = 0
ResetWarnings(i) ==
    /\ At(i, "reset_warnings")
    /\ user_warnings' = [user_warnings EXCEPT ![Task(i).user] = 0]
    /\ Goto(i, "reset_history")
    /\ UNCHANGED <<user_message_history, blocked_users>>
    /\ TaskFrame

\* reset_user: self.user_message_history[user_id] = []
ResetHistory(i) ==
    /\ At(i, "reset_history")
    /\ user_message_history' = [user_message_history EXCEPT ![Task(i).user] = <<>>]
    /\ Return(i)
    /\ UNCHANGED <<user_warnings, blocked_users>>
    /\ TaskFrame

\* record_message: self.user_message_history[user_id].append(...)
AppendMessage(i) ==
    /\ At(i, "record_message")
    /\ user_message_history' =
          [user_message_history EXCEPT ![Task(i).user] =
              Append(@, <<Task(i).query, now>>)]
    /\ Goto(i, "trim")
    /\ UNCHANGED <<user_warnings, blocked_users>>
    /\ TaskFrame

\* record_message: keep the last 50 messages
TrimHistory(i) ==
    /\ At(i, "trim")
    /\ user_message_history' =
          [user_message_history EXCEPT ![Task(i).user] =
              IF Len(@) > HISTORY_CAP THEN LastN(@, HISTORY_CAP) ELSE @]
    /\ Return(i)
    /\ UNCHANGED <<user_warnings, blocked_users>>
    /\ TaskFrame

NextTasks ==
    \E i \in TaskIds :
        \/ IsUserBlocked(i)
        \/ RunChecks(i)
        \/ LoadWarnings(i)
        \/ StoreWarnings(i)
        \/ BlockAtLimit(i)
        \/ DiscardBlocked(i)
        \/ ResetWarnings(i)
        \/ ResetHistory(i)
        \/ AppendMessage(i)
        \/ TrimHistory(i)

SpecTasks == InitTasks /\ [][NextTasks]_vars

\* every call has returned
AllReturned == \A i \in TaskIds : Task(i).pc = "done"

\* the orders in which the calls can be made one after the other
SerialOrders == {order \in [TaskIds -> TaskIds] :
                    \A i, j \in TaskIds : i # j => order[i] # order[j]}

\* the state after the first k calls of the order, made one after the other
RECURSIVE SerialState(_, _)
SerialState(order, k) ==
    IF k = 0 THEN event_loop.before[1]
    ELSE validate_query(SerialState(order, k - 1), Task(order[k]).user,
                        Task(order[k]).query, now).state

\* once every call has returned, the state is that of some serial order
SomeSerialOrder ==
    AllReturned => \E order \in SerialOrders : SafetyState = SerialState(order, MaxTasks)

\* a call that has begun and not returned
InCall(i) == Task(i).pc \notin {"pending", "done"}

\* C19: once the concurrent calls have returned, the safety state is the state
\* that some serial order of the calls produces; and a call never waits: a call
\* that has begun can always take its next step, and while no call is running
\* every pending call can begin, whatever its user key
C19_SerialEquivalent ==
    /\ SomeSerialOrder
    /\ \A i \in TaskIds : InCall(i) => CanRun(event_loop, i)
    /\ event_loop.running = 0 => \A i \in TaskIds : ~InCall(i)

\* two calls of one user, each counting a warning, have returned, and the user
\* was one warning short of the block when they arrived
C19_Witness ==
    /\ AllReturned
    /\ \E i, j \in TaskIds :
          /\ i # j
          /\ Task(i).user = Task(j).user
          /\ Task(i).message = ABUSE_MSG
          /\ event_loop.before[1].warnings[Task(i).user] = WARNING_LIMIT - 1
          /\ Task(j).message \in {ABUSE_MSG, BLOCKED_MSG}

\* calls of different users have returned
C19_DifferentUsersWitness ==
    /\ AllReturned
    /\ \E i, j \in TaskIds : Task(i).user # Task(j).user /\ ~Task(i).allowed /\ Task(j).allowed

(***************************************************************************)
(* SemanticSearch.search_faqs on its own                                   *)
(***************************************************************************)
SearchQueries == {"", "   ", "fuel cost", "add a car"}
SearchCorpora == {<<>>, <<MaintenanceFaq, VehicleFaq>>,
                  <<StaleFaq, FuelFaq, MaintenanceFaq>>}

\* nothing alike; the halved answer score exactly at the default threshold; over
\* it; an exact match
SearchSimPairs == {[question |-> 0, answer |-> 0],
                   [question |-> 290, answer |-> 600],
                   [question |-> 450, answer |-> 0],
                   [question |-> 1000, answer |-> 1000]}
SearchSimRows(n) == [1..n -> SearchSimPairs]

\* no result asked for, fewer than the corpus holds, the default
TopKs == {0, 1, 2, TOP_K}
Thresholds == {SEARCH_THRESHOLD, 450}

InitSearch ==
    /\ InitSafety(UserKeys)
    /\ faq_collection \in SearchCorpora
    /\ gemini = NoGemini
    /\ event_loop = NoLoop
    /\ InitStores

\* what the state keeps of a call of search_faqs that returned results
SearchRequest(query, sim, top_k, threshold, results) ==
    [entry |-> "search_faqs", user |-> NONE, query |-> query, gate |-> "none",
     status |-> 200, detail |-> "", result |-> results, effects |-> {},
     sim |-> sim, top_k |-> top_k, threshold |-> threshold,
     intent |-> detect_intent(query)[1]]

\* one call semantic_search.search_faqs(query, faqs, top_k, threshold)
SearchFaqsCall(query, sim, top_k, threshold) ==
    /\ request.entry = "none"
    /\ request' = SearchRequest(query, sim, top_k, threshold,
                                search_faqs(query, faq_collection, sim, top_k, threshold))
    /\ UNCHANGED <<safetyVars, environmentVars, storeVars>>

NextSearch ==
    \E query \in SearchQueries, sim \in SearchSimRows(Len(faq_collection)),
       top_k \in TopKs, threshold \in Thresholds :
        SearchFaqsCall(query, sim, top_k, threshold)

SpecSearch == InitSearch /\ [][NextSearch]_vars

IsSearchCall == request.entry = "search_faqs"

\* the score search_faqs gives the i-th entry of the corpus for the query
ScoreOf(i) == FaqScore(faq_collection, request.sim, i, request.intent)

\* the entries of the corpus that score at least the threshold
Qualifying == {i \in 1..Len(faq_collection) : ScoreOf(i) >= request.threshold}

\* entry j comes before entry i: a higher score, or the same score and earlier
\* in the corpus
RankedBefore(j, i) ==
    \/ ScoreOf(j) > ScoreOf(i)
    \/ ScoreOf(j) = ScoreOf(i) /\ j < i

\* the place of a qualifying entry among the qualifying ones
PlaceOf(i) == 1 + Cardinality({j \in Qualifying : RankedBefore(j, i)})

\* C20: search_faqs returns at most top_k entries, each with a score at or over
\* the threshold, in non-increasing score order with equal scores in corpus
\* order; they are exactly the first top_k of the qualifying entries in that
\* order; the result is empty when nothing qualifies, when the corpus is empty,
\* and when the query is empty or blank
C20_RankedResult ==
    IsSearchCall =>
        LET results == request.result
        IN  /\ Len(results) <= request.top_k
            /\ \A n \in 1..Len(results) : results[n][2] >= request.threshold
            /\ \A n, m \in 1..Len(results) : n < m => results[n][2] >= results[m][2]
            /\ IF IsBlank(request.query) THEN results = <<>>
               ELSE /\ Len(results) = Min(request.top_k, Cardinality(Qualifying))
                    /\ \A n \in 1..Len(results) :
                          \E i \in Qualifying :
                              /\ PlaceOf(i) = n
                              /\ results[n] = <<faq_collection[i], ScoreOf(i)>>
            /\ (Qualifying = {} \/ faq_collection = <<>>) => results = <<>>

\* a call that cut the qualifying entries down to top_k and returned two entries
\* of the same score, while an entry later in the corpus scored higher
C20_Witness ==
    /\ IsSearchCall
    /\ Cardinality(Qualifying) > request.top_k
    /\ Len(request.result) = 2
    /\ request.result[1][2] = request.result[2][2]
    /\ request.result[1][1] # faq_collection[1]

\* a blank query, with entries in the corpus
C20_BlankWitness ==
    IsSearchCall /\ request.query = "   " /\ faq_collection # <<>> /\ request.result = <<>>

(***************************************************************************)
(* SemanticSearch.calculate_similarity: a query against the corpus         *)
(***************************************************************************)
\* \w of the re module
WordChars == {LowerChars[k] : k \in 1..26} \cup {UpperChars[k] : k \in 1..26}
             \cup {"0", "1", "2", "3", "4", "5", "6", "7", "8", "9", "_"}

\* re.sub(r'[^\w\s]', '', s[i..j])
RECURSIVE RemovePunctuation(_, _, _)
RemovePunctuation(s, i, j) ==
    IF i > j THEN ""
    ELSE IF i = j
         THEN (IF CharAt(s, i) \in WordChars \/ IsSpace(CharAt(s, i)) THEN CharAt(s, i)
               ELSE "")
    ELSE LET mid == (i + j) \div 2
         IN  RemovePunctuation(s, i, mid) \o RemovePunctuation(s, mid + 1, j)

\* SemanticSearch.normalize_text
normalize_text(text) ==
    LET stripped == Strip(Lower(text))
    IN  RemovePunctuation(stripped, 1, Len(stripped))

\* SemanticSearch.calculate_similarity: texts with one normal form have the ratio
\* 1.0 directly and expanded, 0.4 + 0.6 = 1.0; ratio is what the two
\* SequenceMatcher ratios combine to for texts that differ
calculate_similarity(text1, text2, ratio) ==
    IF normalize_text(text1) = normalize_text(text2) THEN 1000 ELSE ratio

\* the similarities search_faqs computes for the query
Similarities(query, faqs, ratios) ==
    [i \in 1..Len(faqs) |->
        [question |-> calculate_similarity(query, faqs[i].question, ratios[i].question),
         answer |-> calculate_similarity(query, faqs[i].answer, ratios[i].answer)]]

\* a question close to MaintenanceFaq's, in the same category
RewordedFaq == [id |-> "f5", question |-> "How can I schedule maintenance?",
                answer |-> "Open the Maintenance tab and pick a date.",
                has_category |-> TRUE, category |-> "Maintenance"]

\* MaintenanceFaq's question in another spelling
RespelledFaq == [id |-> "f6", question |-> "how do i schedule maintenance",
                 answer |-> "Open the Maintenance tab and pick a date.",
                 has_category |-> FALSE, category |-> ""]

ExactCorpora == {<<MaintenanceFaq, VehicleFaq>>,
                 <<StaleFaq, FuelFaq, MaintenanceFaq>>,
                 <<RewordedFaq, MaintenanceFaq, FuelFaq>>,
                 <<RespelledFaq, VehicleFaq, MaintenanceFaq>>}

\* nothing alike, the halved answer score at the threshold, over it, close
ExactRatioPairs == {[question |-> 0, answer |-> 0],
                    [question |-> 290, answer |-> 600],
                    [question |-> 450, answer |-> 0],
                    [question |-> 950, answer |-> 600]}

InitExact ==
    /\ InitSafety(UserKeys)
    /\ faq_collection \in ExactCorpora
    /\ gemini = NoGemini
    /\ event_loop = NoLoop
    /\ InitStores

\* search_faqs called with the question of an entry of the corpus as the query
NextExact ==
    \E i \in 1..Len(faq_collection), ratios \in [1..Len(faq_collection) -> ExactRatioPairs] :
        SearchFaqsCall(faq_collection[i].question,
                       Similarities(faq_collection[i].question, faq_collection, ratios),
                       TOP_K, SEARCH_THRESHOLD)

SpecExact == InitExact /\ [][NextExact]_vars

\* the entries whose question text is the query
ExactMatches == {i \in 1..Len(faq_collection) : faq_collection[i].question = request.query}

\* C21: an entry whose question text is the query has the highest score of the
\* corpus and is the first match returned
C21_ExactMatchFirst ==
    IsSearchCall =>
        \A i \in ExactMatches :
            /\ \A j \in 1..Len(faq_collection) : ScoreOf(i) >= ScoreOf(j)
            /\ request.result # <<>>
            /\ request.result[1][1] = faq_collection[i]

\* an entry whose question text is the query scores 1.0, which no entry exceeds,
\* and is among the matches returned
C21_ExactMatchScoresHighest ==
    IsSearchCall =>
        \A i \in ExactMatches :
            /\ ScoreOf(i) = 1000
            /\ \A j \in 1..Len(faq_collection) : ScoreOf(i) >= ScoreOf(j)
            /\ \E n \in 1..Len(request.result) :
                  request.result[n] = <<faq_collection[i], 1000>>

\* an entry earlier in the corpus reaches 1.0 through the category boost
C21_BoostedTie ==
    /\ IsSearchCall
    /\ \E i \in ExactMatches :
          /\ request.result[1][1] # faq_collection[i]
          /\ request.sim[1].question < 1000

(***************************************************************************)
(* SemanticSearch.ground_answer on its own                                 *)
(***************************************************************************)
\* under the threshold, at it, just under the note limit, at it, an exact match
GroundScores == {0, SEARCH_THRESHOLD, NOTE_BELOW - 1, NOTE_BELOW, 1000}

\* no match, one, two in any order of their scores
GroundMatches ==
    {<<>>}
    \cup {<<WithScore(<<VehicleFaq, a>>)>> : a \in GroundScores}
    \cup {<<WithScore(<<MaintenanceFaq, a>>), WithScore(<<VehicleFaq, b>>)>> :
             a \in GroundScores, b \in GroundScores}

GroundQueries == {"add a car", "fuel cost", ""}
GroundAnswers == {"", "Open Vehicles and choose Add Vehicle."}

\* what the state keeps of a call of ground_answer that returned grounding
GroundRequest(query, faq_results, answer, grounding) ==
    [entry |-> "ground_answer", user |-> NONE, query |-> query, gate |-> "none",
     status |-> 200, detail |-> "", result |-> grounding, effects |-> {},
     sim |-> <<>>, faq_results |-> faq_results, answer |-> answer]

\* one call semantic_search.ground_answer(query, faq_results, answer)
GroundAnswer(query, faq_results, answer) ==
    /\ request.entry = "none"
    /\ request' = GroundRequest(query, faq_results, answer,
                                ground_answer(query, faq_results, answer))
    /\ UNCHANGED <<safetyVars, environmentVars, storeVars>>

NextGrounder ==
    \E query \in GroundQueries, faq_results \in GroundMatches, answer \in GroundAnswers :
        GroundAnswer(query, faq_results, answer)

SpecGrounder == Init /\ [][NextGrounder]_vars

IsGroundCall == request.entry = "ground_answer"

\* c is the highest score of the matches given to the last ground_answer call
IsBestScore(c) ==
    /\ \E n \in 1..Len(request.faq_results) : request.faq_results[n].similarity_score = c
    /\ \A n \in 1..Len(request.faq_results) : request.faq_results[n].similarity_score <= c

CouldNotFind(query) ==
    "I couldn't find specific information about '" \o query
        \o "' in our FAQ database. \n\nPlease contact our support team at support@fleety.com for detailed assistance. We're here to help!"

\* C22: ground_answer sets is_grounded iff there are matches; the confidence is
\* the highest match score when grounded and 0.0 otherwise; the footnote is
\* appended iff grounded with a confidence under 0.6, the answer being returned
\* unchanged otherwise; and when not grounded the answer is the could-not-find
\* message
C22_GrounderRule ==
    IsGroundCall =>
        LET grounding == request.result
        IN  /\ grounding.is_grounded = (request.faq_results # <<>>)
            /\ IF grounding.is_grounded THEN IsBestScore(grounding.confidence)
               ELSE grounding.confidence = 0
            /\ grounding.grounded_answer =
                  IF ~grounding.is_grounded THEN CouldNotFind(request.query)
                  ELSE IF grounding.confidence < 600
                       THEN request.answer \o GROUNDING_NOTE
                  ELSE request.answer

\* two matches, the second one the better, with the footnote decided by it
C22_Witness ==
    /\ IsGroundCall
    /\ Len(request.faq_results) = 2
    /\ request.faq_results[1].similarity_score = NOTE_BELOW - 1
    /\ request.faq_results[2].similarity_score = NOTE_BELOW
    /\ request.result.grounded_answer = request.answer

\* no match: the answer is replaced
C22_NotGroundedWitness ==
    /\ IsGroundCall
    /\ request.faq_results = <<>>
    /\ request.answer # ""
    /\ ~request.result.is_grounded
    /\ request.result.grounded_answer # request.answer

(***************************************************************************)
(* RAGService._validate_context_appropriateness on its own                 *)
(***************************************************************************)
PasswordFaq == [id |-> "f7", question |-> "How do I Reset my password?",
                answer |-> "Use the Forgot Password link on the login page.",
                has_category |-> TRUE, category |-> "Account"]
RegistrationFaq == [id |-> "f8", question |-> "How do I Sign Up?",
                    answer |-> "Choose Create Account on the start page.",
                    has_category |-> TRUE, category |-> "Account"]

\* a registration query, a password query, a vehicle query, queries of two
\* domains, a query of none
ContextQueries == {"how do i register", "Forgot my LOGIN", "add a car",
                   "register my truck", "reset my fleet", "fuel cost"}

ContextFaqs == {VehicleFaq, MaintenanceFaq, PasswordFaq, RegistrationFaq}

\* no match, one, two
ContextMatches ==
    {<<>>}
    \cup {<<WithScore(<<a, 1000>>)>> : a \in ContextFaqs}
    \cup {<<WithScore(<<a, 1000>>), WithScore(<<b, 1000>>)>> :
             a \in ContextFaqs, b \in ContextFaqs}

\* the threshold, just under 0.5, 0.5, an exact match
ContextScores == {SEARCH_THRESHOLD, CONTEXT_MIN_SCORE - 1, CONTEXT_MIN_SCORE, 1000}

\* what the state keeps of a call of the context check
ContextRequest(query, relevant_faqs, similarity_score, is_appropriate) ==
    [entry |-> "context", user |-> NONE, query |-> query, gate |-> "none",
     status |-> 200, detail |-> "", result |-> is_appropriate, effects |-> {},
     sim |-> <<>>, relevant_faqs |-> relevant_faqs, similarity_score |-> similarity_score]

\* one call self._validate_context_appropriateness(query, relevant_faqs, score)
ValidateContext(query, relevant_faqs, similarity_score) ==
    /\ request.entry = "none"
    /\ request' = ContextRequest(query, relevant_faqs, similarity_score,
                     validate_context_appropriateness(query, relevant_faqs,
                                                      similarity_score))
    /\ UNCHANGED <<safetyVars, environmentVars, storeVars>>

NextContext ==
    \E query \in ContextQueries, relevant_faqs \in ContextMatches,
       similarity_score \in ContextScores :
        ValidateContext(query, relevant_faqs, similarity_score)

SpecContext == Init /\ [][NextContext]_vars

IsContextCall == request.entry = "context"

\* the query of the last context check holds a keyword of the domain
QueryOfDomain(keywords) == ContainsAny(Lower(request.query), keywords)

\* the question of the top match of the last context check holds a keyword of
\* the domain
TopQuestionOfDomain(keywords) ==
    ContainsAny(Lower(request.relevant_faqs[1].question), keywords)

\* C23: for a non-empty match list the context check fails exactly for a
\* registration query with a password question on top, for a password query with
\* a registration question on top (both at any score), and for a vehicle query
\* whose top question holds no vehicle keyword at a score under 0.5
C23_ContextDecision ==
    (IsContextCall /\ request.relevant_faqs # <<>>) =>
        (~request.result <=>
            \/ QueryOfDomain({"register", "sign up", "create account", "account creation"})
                  /\ TopQuestionOfDomain({"password", "forgot", "reset", "forgot password"})
            \/ QueryOfDomain({"password", "forgot", "reset", "forgot password"})
                  /\ TopQuestionOfDomain({"register", "sign up", "create account",
                                          "account creation"})
            \/ /\ QueryOfDomain({"vehicle", "add vehicle", "car", "truck", "fleet"})
               /\ ~TopQuestionOfDomain({"vehicle", "add vehicle", "car", "truck", "fleet"})
               /\ request.similarity_score < 500)

\* a vehicle query with a maintenance question on top passes at 0.5
C23_Witness ==
    /\ IsContextCall
    /\ request.query = "add a car"
    /\ request.relevant_faqs # <<>>
    /\ request.relevant_faqs[1].id = MaintenanceFaq.id
    /\ request.similarity_score = CONTEXT_MIN_SCORE
    /\ request.result

\* a registration query with a password question on top fails at 1.0
C23_AnyScoreWitness ==
    /\ IsContextCall
    /\ request.query = "how do i register"
    /\ request.relevant_faqs # <<>>
    /\ request.relevant_faqs[1].id = PasswordFaq.id
    /\ request.similarity_score = 1000
    /\ ~request.result

(***************************************************************************)
(* ChatbotAnalytics.detect_sentiment                                       *)
(***************************************************************************)
positive_words == {"great", "excellent", "good", "perfect", "amazing", "love", "helpful",
                   "thanks"}
negative_words == {"bad", "terrible", "poor", "hate", "broken", "error", "problem", "issue"}
frustrated_words == {"frustrat", "annoyed", "angry", "upset", "confused"}

\* sum(1 for word in words if word in text_lower)
CountWords(text_lower, words) == Cardinality({word \in words : Contains(text_lower, word)})

\* the label and the score, in thousandths, for the three counts
Sentiment(positive_count, negative_count, frustrated_count) ==
    IF positive_count + negative_count + frustrated_count = 0 THEN <<"neutral", 0>>
    ELSE IF frustrated_count > 0 THEN <<"frustrated", -800>>
    ELSE IF negative_count > positive_count
         THEN <<"negative",
                Min(-1000, -((negative_count * 1000)
                              \div Max(1, positive_count + negative_count)))>>
    ELSE IF positive_count > 0
         THEN <<"positive",
                Min(1000, (positive_count * 1000)
                             \div (positive_count + negative_count + 1))>>
    ELSE <<"neutral", 0>>

\* ChatbotAnalytics.detect_sentiment
detect_sentiment(text) ==
    LET text_lower == Lower(text)
        positive_count == CountWords(text_lower, positive_words)
        negative_count == CountWords(text_lower, negative_words)
        frustrated_count == CountWords(text_lower, frustrated_words)
        sentiment == Sentiment(positive_count, negative_count, frustrated_count)
    IN  [sentiment |-> sentiment[1],
         sentiment_score |-> Round2(sentiment[2]),
         positive_indicators |-> positive_count,
         negative_indicators |-> negative_count,
         frustrated_indicators |-> frustrated_count]

\* the words a query is made of
SentimentWords == {"Good", "great", "bad", "broken", "confused", "fuel"}
MaxWords == 3

\* the queries of one to MaxWords words
RECURSIVE SentimentTexts(_)
SentimentTexts(n) ==
    IF n = 1 THEN SentimentWords
    ELSE SentimentTexts(n - 1)
         \cup {text \o " " \o word : text \in SentimentTexts(n - 1), word \in SentimentWords}

\* what the state keeps of a call of detect_sentiment
SentimentRequest(text, sentiment_data) ==
    [entry |-> "detect_sentiment", user |-> NONE, query |-> text, gate |-> "none",
     status |-> 200, detail |-> "", result |-> sentiment_data, effects |-> {},
     sim |-> <<>>]

\* one call self.detect_sentiment(query), as build_metadata makes it
DetectSentiment(text) ==
    /\ request.entry = "none"
    /\ request' = SentimentRequest(text, detect_sentiment(text))
    /\ UNCHANGED <<safetyVars, environmentVars, storeVars>>

NextSentiment == \E text \in SentimentTexts(MaxWords) : DetectSentiment(text)

SpecSentiment == Init /\ [][NextSentiment]_vars

IsSentimentCall == request.entry = "detect_sentiment"

\* C24: the label is neutral when the three counts are zero, frustrated whenever
\* the frustrated count is positive, and otherwise negative when the negative
\* count is at least the positive one (negative wins a tie) and positive when the
\* positive count is higher; the score lies in [-1, 1]
C24_SentimentPrecedence ==
    IsSentimentCall =>
        LET data == request.result
            total == data.positive_indicators + data.negative_indicators
                        + data.frustrated_indicators
        IN  /\ data.sentiment =
                  IF total = 0 THEN "neutral"
                  ELSE IF data.frustrated_indicators > 0 THEN "frustrated"
                  ELSE IF data.negative_indicators >= data.positive_indicators
                       THEN "negative"
                  ELSE "positive"
            /\ data.sentiment_score >= -1000
            /\ data.sentiment_score <= 1000

\* the same with positive winning a tie of the negative and positive counts
C24_PositiveWinsTie ==
    IsSentimentCall =>
        LET data == request.result
            total == data.positive_indicators + data.negative_indicators
                        + data.frustrated_indicators
        IN  /\ data.sentiment =
                  IF total = 0 THEN "neutral"
                  ELSE IF data.frustrated_indicators > 0 THEN "frustrated"
                  ELSE IF data.negative_indicators > data.positive_indicators
                       THEN "negative"
                  ELSE "positive"
            /\ data.sentiment_score >= -1000
            /\ data.sentiment_score <= 1000

\* a query with as many negative as positive words, and no frustrated one
C24_Tie ==
    /\ IsSentimentCall
    /\ request.result.frustrated_indicators = 0
    /\ request.result.positive_indicators = 1
    /\ request.result.negative_indicators = 1
    /\ request.result.sentiment = "positive"

(***************************************************************************)
(* Properties of the spam window                                           *)
(***************************************************************************)
\* how many entries of history h equal q up to case, whatever their age
IdenticalCount(h, q) == Cardinality({i \in 1..Len(h) : LowerOf[h[i][1]] = LowerOf[q]})

\* C25: a query that reaches the spam check is rejected for repetition iff at
\* least 3 of the caller's recorded messages less than five minutes old equal it
\* up to case; older ones do not count; and a query that differs from every
\* message in the window and holds no spam keyword is not rejected by the spam
\* check
C25_TrailingWindow ==
    (IsCall /\ ~last.preBlocked) =>
        /\ (last.message = REPEAT_MSG)
              <=> (RepeatCount(last.preHistory, last.query, last.at) >= 3)
        /\ (/\ RepeatCount(last.preHistory, last.query, last.at) = 0
            /\ ~HasSpamKeyword[last.query])
              => last.check # "spam"

\* three recorded messages equal the query, one of them exactly five minutes
\* old, and the query is accepted
C25_Witness ==
    /\ IsCall
    /\ ~last.preBlocked
    /\ last.allowed
    /\ IdenticalCount(last.preHistory, last.query) >= 3
    /\ \E i \in 1..Len(last.preHistory) : last.at - last.preHistory[i][2] = SPAM_WINDOW

\* three recent recorded messages equal the query up to case, and it is rejected
C25_RepeatWitness ==
    /\ IsCall
    /\ last.message = REPEAT_MSG
    /\ \E i \in 1..Len(last.preHistory) : last.preHistory[i][1] # last.query

(***************************************************************************)
(* Properties of the warning count and the blocked set                     *)
(***************************************************************************)
\* C26: for every user key, the key is blocked iff its warning count is at
\* least 3, and the warning count never exceeds 3
C26_WarningBlockConsistency ==
    \A u \in UserKeys :
        /\ (u \in blocked_users) <=> (user_warnings[u] >= 3)
        /\ user_warnings[u] <= 3

\* the third warning has blocked the caller, while the other user has a
\* warning and is not blocked
C26_Witness ==
    /\ IsCall
    /\ ~last.preBlocked
    /\ last.preWarnings = 2
    /\ BlockedNow
    /\ WarningsNow = 3
    /\ \E u \in UserKeys \ {last.user} :
          user_warnings[u] \in 1..2 /\ u \notin blocked_users

\* C27: a blocked user key stays blocked over every step, whoever calls, and
\* every call of a blocked user is rejected
C27_BlockedAbsorbing ==
    [][\A u \in UserKeys :
          u \in blocked_users =>
              /\ u \in blocked_users'
              /\ (last' # last /\ last'.user = u) => ~last'.allowed]_vars

\* a blocked user has sent a malicious payload (the one query that resets a
\* user): the call was rejected as blocked and the user is blocked still
C27_Witness ==
    /\ IsCall
    /\ last.preBlocked
    /\ TriggersMalicious
    /\ ~last.allowed
    /\ last.check = "blocked"
    /\ BlockedNow

(***************************************************************************)
(* Frame of validate_query                                                 *)
(***************************************************************************)
WarningChecks == {"blocked", "spam", "abuse", "injection"}

\* user key u has the same history, warning count and blocked flag after the step
KeyUnchanged(u) ==
    /\ user_message_history'[u] = user_message_history[u]
    /\ user_warnings'[u] = user_warnings[u]
    /\ (u \in blocked_users') <=> (u \in blocked_users)

\* C28: a call rejected by the blocked, spam, abuse or injection check leaves the
\* caller's history unchanged; an accepted call leaves the caller's warning
\* count and blocked flag unchanged; a call never changes the history, warning
\* count or blocked flag of another user key
C28_ValidateQueryFrame ==
    [][(calls' = calls + 1) =>
          /\ (last'.check \in WarningChecks) =>
                user_message_history'[last'.user] = user_message_history[last'.user]
          /\ last'.allowed =>
                /\ user_warnings'[last'.user] = user_warnings[last'.user]
                /\ (last'.user \in blocked_users') <=> (last'.user \in blocked_users)
          /\ \A u \in UserKeys \ {last'.user} : KeyUnchanged(u)]_vars

\* a call that reset its caller, who had a history, while the other user has a
\* history and a warning
C28_Witness ==
    /\ IsCall
    /\ last.check = "malicious"
    /\ last.preHistory # <<>>
    /\ HistoryNow = <<>>
    /\ \E u \in UserKeys \ {last.user} :
          user_message_history[u] # <<>> /\ user_warnings[u] > 0

\* a rejected call of a user with a history, which is as it was
C28_RejectedWitness ==
    /\ IsCall
    /\ last.check \in WarningChecks \ {"blocked"}
    /\ last.preHistory # <<>>
    /\ HistoryNow = last.preHistory
    /\ WarningsNow = last.preWarnings + 1

\* an accepted call of a user with warnings, which are as they were
C28_AcceptedWitness ==
    /\ IsCall
    /\ last.allowed
    /\ last.preWarnings > 0
    /\ WarningsNow = last.preWarnings
    /\ Len(HistoryNow) = Len(last.preHistory) + 1

(***************************************************************************)
(* The generator-usage flag of the analytics record                        *)
(***************************************************************************)
\* the answer handed to the grounder is the text of model.generate_content
GeneratorAnswered ==
    /\ Synthesized
    /\ GeneratorCalled(gemini)
    /\ gemini.reply \notin {RAISES, NONE}
    /\ request.result.generator_calls = 1

\* C29: in every response of search_and_generate, analytics.fallback_ai_used is
\* true only if the answer was produced by the external generator; when the
\* generator is unavailable, uninitialised or its call fails, it is false
C29_GeneratorFlagTruthful ==
    IsPipelineCall =>
        (request.result.analytics.fallback_ai_used => GeneratorAnswered)

\* what the flag does say: that a call reached Step 2 with an API key set
C29_FlagIsKeyPresent ==
    IsPipelineCall =>
        (request.result.analytics.fallback_ai_used
            <=> (Synthesized /\ is_gemini_available(gemini)
                    /\ request.result.error \notin {"analytics"}))

\* the flag is true and the generator was never called
C29_FlagWithoutGenerator ==
    /\ IsPipelineCall
    /\ request.result.analytics.fallback_ai_used
    /\ request.result.generator_calls = 0

(***************************************************************************)
(* Retrieval on its own: one call of _keyword_search_faqs with the top_k   *)
(* its caller passes, for corpora with more stale entries than top_k       *)
(***************************************************************************)
\* the stale entries of the corpus: more of them than top_k holds places
StaleTopics == <<"fuel", "trip", "cost", "service", "driver">>
StaleEntries ==
    [n \in 1..Len(StaleTopics) |->
        [id |-> "s" \o ToString(n),
         question |-> "Can I export " \o StaleTopics[n] \o " reports?",
         answer |-> "Export of " \o StaleTopics[n] \o " reports is Coming Soon.",
         has_category |-> FALSE, category |-> ""]]

\* five stale entries before a fresh one and after it; four stale entries and
\* two fresh ones; a corpus smaller than top_k
RetrievalCorpora == {StaleEntries \o <<FuelFaq>>,
                     <<FuelFaq>> \o StaleEntries,
                     SubSeq(StaleEntries, 1, 4) \o <<FuelFaq, VehicleFaq>>,
                     <<StaleFaq, FuelFaq, MaintenanceFaq>>}

\* nothing alike; over the threshold; an exact match
RetrievalSimPairs == {[question |-> 0, answer |-> 0],
                      [question |-> 450, answer |-> 0],
                      [question |-> 1000, answer |-> 1000]}
RetrievalSimRows(n) == [1..n -> RetrievalSimPairs]
RetrievalQueries == {"fuel cost", "add a car"}

InitRetrieval ==
    /\ InitSafety(UserKeys)
    /\ faq_collection \in RetrievalCorpora
    /\ gemini = NoGemini
    /\ event_loop = NoLoop
    /\ InitStores

\* what the state keeps of a call of _keyword_search_faqs that returned results
RetrievalRequest(query, sim, results) ==
    [entry |-> "keyword_search_faqs", user |-> NONE, query |-> query, gate |-> "none",
     status |-> 200, detail |-> "", result |-> results, effects |-> {},
     sim |-> sim, top_k |-> TOP_K, threshold |-> SEARCH_THRESHOLD,
     intent |-> detect_intent(query)[1]]

\* one call self._keyword_search_faqs(query, top_k=5)
KeywordSearchFaqs(query, sim) ==
    /\ request.entry = "none"
    /\ request' = RetrievalRequest(query, sim,
                                   keyword_search_faqs(query, faq_collection, sim, TOP_K))
    /\ UNCHANGED <<safetyVars, environmentVars, storeVars>>

NextRetrieval ==
    \E query \in RetrievalQueries, sim \in RetrievalSimRows(Len(faq_collection)) :
        KeywordSearchFaqs(query, sim)

SpecRetrieval == InitRetrieval /\ [][NextRetrieval]_vars

IsRetrievalCall == request.entry = "keyword_search_faqs"

\* the fresh entries of the corpus that score at least the threshold
FreshQualifying == {i \in Qualifying : validate_answer_freshness(faq_collection[i])}

\* the place of a fresh qualifying entry among the fresh qualifying ones
FreshPlaceOf(i) == 1 + Cardinality({j \in FreshQualifying : RankedBefore(j, i)})

\* C30: when a fresh entry of the corpus scores at least the threshold 0.3,
\* _keyword_search_faqs with top_k = 5 returns a non-empty match set; it returns
\* the min(5, n) highest-scoring of the n fresh qualifying entries, however many
\* stale entries score higher
C30_FreshNotDisplaced ==
    IsRetrievalCall =>
        LET results == request.result
        IN  /\ FreshQualifying # {} => results # <<>>
            /\ Len(results) = Min(TOP_K, Cardinality(FreshQualifying))
            /\ \A n \in 1..Len(results) :
                  \E i \in FreshQualifying :
                      /\ FreshPlaceOf(i) = n
                      /\ results[n].id = faq_collection[i].id
                      /\ results[n].similarity_score = ScoreOf(i)

\* the same when no more than top_k entries qualify, stale ones included
C30_FreshWhenFewQualify ==
    (IsRetrievalCall /\ Cardinality(Qualifying) <= TOP_K) =>
        LET results == request.result
        IN  /\ Len(results) = Cardinality(FreshQualifying)
            /\ \A n \in 1..Len(results) :
                  \E i \in FreshQualifying :
                      /\ FreshPlaceOf(i) = n
                      /\ results[n].id = faq_collection[i].id
                      /\ results[n].similarity_score = ScoreOf(i)

\* what the code returns: the fresh ones of the top_k qualifying entries
C30_FreshOfTopK ==
    IsRetrievalCall =>
        LET kept == {i \in FreshQualifying : PlaceOf(i) <= TOP_K}
        IN  /\ Len(request.result) = Cardinality(kept)
            /\ \A i \in kept : \E n \in 1..Len(request.result) :
                  request.result[n].id = faq_collection[i].id

\* a fresh entry qualifies and the match set is empty: five stale entries took
\* the five places
C30_StaleDisplacesFresh ==
    /\ IsRetrievalCall
    /\ FreshQualifying # {}
    /\ request.result = <<>>

====
